---- MODULE Spec2Model ----
(***************************************************************************)
(* Account management server of addwise: sign-up, sign-in with lockout,    *)
(* the JWT authentication gate and the admin user-management routes.       *)
(* Every route handler is an operator from (store, clock, request) to      *)
(* (store, response); an action applies one handler to one request.        *)
(* Time is counted in hours.                                               *)
(***************************************************************************)
EXTENDS Integers, Sequences, FiniteSets, TLC

----------------------------------------------------------------------------
(* Bounds of the model *)

MaxUsers == 2
EarlyTicks == 2
LateTicks == 1
MaxTokens == 1
MaxAttempts == 5
SessionAttempts == 1
CredentialAttempts == 2
MaxInflight == 2
MaxRaceIds == 3
MaxCalls == 2
MaxStreak == 6

(* Program constants *)

LockThreshold == 5
LockDuration == 2
TokenLifetime == 24

SharedCode == "addwise"
JwtSecret == "JWT_SECRET"

----------------------------------------------------------------------------
(* Input domains *)

Undefined == "undefined"

Roles == {"user", "admin", "superadmin"}
Privileged == {"admin", "superadmin"}

Ids == 1..MaxUsers

RawEmails == {"a@x.io", "A@x.io", "b@x.io"}
Passwords == {"Abcdef1", "Xyz789a"}
Salts == {"s1"}
FreshSalts == {"s1", "s2"}
UniqueCodes == {Undefined, SharedCode, "guess"}

(* Passwords the rule isLength({min: 6}).matches(lower, upper, digit) turns
   down *)
WeakPasswords == {"abc"}
passwordRule(p) == p # "" /\ p \notin WeakPasswords

(* The profile fields of the model: firstName stands for the two names,
   department for department and position. What an update can give them:
   nothing, a text, a text too short or too long, the empty text. *)
NameInputs == {Undefined, " Bob ", "B", ""}
DepartmentInputs == {Undefined, "R&D", "", "LONG"}

(* The length of a text of the model; LONG is a text of 101 characters *)
strLen(s) ==
    CASE s = "" -> 0
      [] s = "B" -> 1
      [] s = " Bob " -> 5
      [] s = "LONG" -> 101
      [] OTHER -> 3

(* .trim() *)
trim(s) == IF s = " Bob " THEN "Bob" ELSE IF s = " " THEN "" ELSE s

(* .trim().isLength({ min: 2, max: 50 }) *)
nameRule(s) == strLen(trim(s)) >= 2 /\ strLen(trim(s)) <= 50

(* .optional().trim().isLength({ max: 100 }) *)
departmentRule(s) == s = Undefined \/ strLen(trim(s)) <= 100

(* x && { x }: the field is given and is not the empty text *)
truthy(s) == s # Undefined /\ s # ""

(* The instants at which requests arrive: the first hours, and the hours
   around the expiry of a token issued in the first hours. *)
Times == (0..EarlyTicks) \cup (TokenLifetime..(TokenLifetime + LateTicks))

----------------------------------------------------------------------------
VARIABLES
    users,       \* the Account collection: a function from _id to document
    nextId,      \* the next _id the store hands out (ids are never reused)
    now,         \* the clock
    tokens,      \* the tokens clients hold
    failStreak,  \* history: per _id, the wrong-password sign-ins since the
                 \* account was created or last signed in
    inflight,    \* the creations that have passed their find-by-email check
                 \* and await their save(), per request slot
    qrcodes,     \* the QrCode collection
    state,       \* the client: the state of the AuthContext reducer
    localStorage,\* the client: the 'token' entry of localStorage
    calls,       \* the client: the calls of AuthContext functions that await
                 \* the response to their request, and the mount effect
    location,    \* the client: '/login' while the page is being replaced
                 \* after window.location.href = '/login'
    done,        \* history: the last AuthContext call that completed, and
                 \* what became of its request
    defaults     \* the client: api.defaults.headers.common.Authorization

serverVars == <<users, nextId, now, tokens, failStreak, inflight, qrcodes>>

clientVars == <<state, localStorage, calls, location, done, defaults>>

vars == <<serverVars, clientVars>>

(* express-validator normalizeEmail(): lower-cases the address *)
normalizeEmail(e) == IF e = "A@x.io" THEN "a@x.io" ELSE e

(* bcrypt, as the User model uses it: a salted one-way digest, kept with its
   salt. The digest is a text that differs for every pair of salt and
   password. *)
hashPassword(p, salt) == [salt |-> salt, digest |-> salt \o "$" \o p]

comparePassword(user, candidate) ==
    hashPassword(candidate, user.password.salt).digest = user.password.digest

(* User.findByEmail / User.findOne({email}) : the set of matching ids *)
findByEmail(U, email) == {i \in DOMAIN U : U[i].email = email}

(* user.isLocked() *)
isLocked(user, t) == user.lockUntil # <<>> /\ user.lockUntil[1] > t

(* user.incLoginAttempts() *)
incLoginAttempts(user, t) ==
    [user EXCEPT !.loginAttempts = @ + 1,
                 !.lockUntil = IF user.loginAttempts + 1 >= LockThreshold
                               THEN <<t + LockDuration>> ELSE @]

(* user.incLoginAttempts() on a document read earlier: the update writes
   the count that was read plus one, and the lock when that reaches the
   threshold, to the document as it is in the store now *)
incLoginAttemptsOf(local, stored, t) ==
    [stored EXCEPT !.loginAttempts = local.loginAttempts + 1,
                   !.lockUntil = IF local.loginAttempts + 1 >= LockThreshold
                                 THEN <<t + LockDuration>> ELSE @]

(* user.resetLoginAttempts() *)
resetLoginAttempts(user) ==
    [user EXCEPT !.loginAttempts = 0, !.lockUntil = <<>>]

(* user.getPublicProfile() *)
getPublicProfile(U, id) ==
    [id |-> id, email |-> U[id].email, role |-> U[id].role,
     isActive |-> U[id].isActive, firstName |-> U[id].firstName,
     department |-> U[id].department]

(* new User({...}), with the password hashed by the save hook *)
NewUser(email, password, salt, role, firstName, department) ==
    [email |-> email, password |-> hashPassword(password, salt), role |-> role,
     isActive |-> TRUE, loginAttempts |-> 0, lockUntil |-> <<>>,
     firstName |-> firstName, department |-> department]

DuplicateKey == 11000

(* user.save() of a new document: the unique index on email turns down a
   second document with the same email with error code 11000 *)
saveUser(U, id, doc) ==
    IF findByEmail(U, doc.email) # {}
    THEN [users |-> U, error |-> DuplicateKey]
    ELSE [users |-> (id :> doc) @@ U, error |-> 0]

----------------------------------------------------------------------------
(* Tokens *)

(* generateToken with the lock duration as lifetime *)
generateToken_Short(userId, t) ==
    [userId |-> userId, iat |-> t, exp |-> t + LockDuration, sig |-> JwtSecret]

generateToken(userId, t) ==
    [userId |-> userId, iat |-> t, exp |-> t + TokenLifetime, sig |-> JwtSecret]

(* jwt.verify(token, JWT_SECRET): signature first, then expiry *)
jwtVerify(token, t) ==
    IF token.sig # JwtSecret THEN "JsonWebTokenError"
    ELSE IF t >= token.exp THEN "TokenExpiredError"
    ELSE "ok"

Fail(U, status, code) ==
    [users |-> U, resp |-> [status |-> status, code |-> code,
                            token |-> <<>>, user |-> <<>>,
                            lockUntil |-> <<>>]]

Reject(code) == [ok |-> FALSE, status |-> 401, code |-> code, userId |-> 0]

(* authenticateToken without the isActive check *)
authenticateToken_NoActive(U, t, hdr) ==
    IF hdr = <<>> THEN Reject("NO_TOKEN")
    ELSE LET v == jwtVerify(hdr[1], t) IN
         IF v = "JsonWebTokenError" THEN Reject("INVALID_TOKEN")
         ELSE IF v = "TokenExpiredError" THEN Reject("TOKEN_EXPIRED")
         ELSE IF hdr[1].userId \notin DOMAIN U THEN Reject("INVALID_TOKEN")
         ELSE [ok |-> TRUE, status |-> 200, code |-> "OK",
               userId |-> hdr[1].userId]

(* The authentication gate. hdr is <<>> (no Authorization header) or
   <<token>>. *)
authenticateToken(U, t, hdr) ==
    IF hdr = <<>> THEN Reject("NO_TOKEN")
    ELSE LET v == jwtVerify(hdr[1], t) IN
         IF v = "JsonWebTokenError" THEN Reject("INVALID_TOKEN")
         ELSE IF v = "TokenExpiredError" THEN Reject("TOKEN_EXPIRED")
         ELSE IF hdr[1].userId \notin DOMAIN U THEN Reject("INVALID_TOKEN")
         ELSE IF ~U[hdr[1].userId].isActive THEN Reject("ACCOUNT_DEACTIVATED")
         ELSE [ok |-> TRUE, status |-> 200, code |-> "OK",
               userId |-> hdr[1].userId]

----------------------------------------------------------------------------
(* POST /api/auth/signup *)

SignupReqs ==
    [email : RawEmails, password : {"Abcdef1"},
     role : Roles \cup {Undefined}, uniqueCode : UniqueCodes,
     firstName : {"Ann"}, department : {Undefined}]

(* body('uniqueCode').optional().custom(...): the check is skipped when the
   field is absent *)
signupValidation(req) ==
    /\ nameRule(req.firstName)
    /\ passwordRule(req.password)
    /\ departmentRule(req.department)
    /\ \/ req.uniqueCode = Undefined
       \/ req.role \in Privileged => req.uniqueCode = SharedCode

(* The handler up to its first await on the store: validation and the
   find-by-email check. "PASS", or the code of the 400 answer. *)
signupCheck(U, req) ==
    IF ~signupValidation(req) THEN "VALIDATION_FAILED"
    ELSE IF findByEmail(U, normalizeEmail(req.email)) # {} THEN "EMAIL_EXISTS"
    ELSE "PASS"

(* signupSave without the catch of the duplicate-key error *)
signupSave_NoCatch(U, t, id, salt, req) ==
    LET role == IF req.role = Undefined THEN "user" ELSE req.role
        s == saveUser(U, id, NewUser(normalizeEmail(req.email), req.password,
                                     salt, role, trim(req.firstName),
                                     trim(req.department)))
    IN IF s.error = DuplicateKey THEN Fail(U, 500, "REGISTRATION_ERROR")
       ELSE [users |-> s.users,
             resp |-> [status |-> 201, code |-> "REGISTERED",
                       token |-> <<generateToken(id, t)>>,
                       user |-> <<getPublicProfile(s.users, id)>>,
                       lockUntil |-> <<>>]]

(* signupSave that stores the role user whatever the body asks for *)
signupSave_AlwaysUser(U, t, id, salt, req) ==
    LET s == saveUser(U, id, NewUser(normalizeEmail(req.email), req.password,
                                     salt, "user", trim(req.firstName),
                                     trim(req.department)))
    IN IF s.error = DuplicateKey THEN Fail(U, 400, "EMAIL_EXISTS")
       ELSE [users |-> s.users,
             resp |-> [status |-> 201, code |-> "REGISTERED",
                       token |-> <<generateToken(id, t)>>,
                       user |-> <<getPublicProfile(s.users, id)>>,
                       lockUntil |-> <<>>]]

(* The handler from new User({...}) on: the save, then the answer *)
signupSave(U, t, id, salt, req) ==
    LET role == IF req.role = Undefined THEN "user" ELSE req.role
        s == saveUser(U, id, NewUser(normalizeEmail(req.email), req.password,
                                     salt, role, trim(req.firstName),
                                     trim(req.department)))
    IN IF s.error = DuplicateKey THEN Fail(U, 400, "EMAIL_EXISTS")
       ELSE [users |-> s.users,
             resp |-> [status |-> 201, code |-> "REGISTERED",
                       token |-> <<generateToken(id, t)>>,
                       user |-> <<getPublicProfile(s.users, id)>>,
                       lockUntil |-> <<>>]]

signup(U, t, id, salt, req) ==
    LET c == signupCheck(U, req) IN
    IF c # "PASS" THEN Fail(U, 400, c)
    ELSE signupSave(U, t, id, salt, req)

----------------------------------------------------------------------------
(* POST /api/auth/signin *)

(* Wrong and empty passwords are tried against one address only; the other
   address signs in with the password it registered. *)
SigninReqs ==
    [email : {"a@x.io", "A@x.io"}, password : Passwords \cup {""},
     uniqueCode : UniqueCodes]
    \cup [email : {"b@x.io"}, password : {"Abcdef1"}, uniqueCode : UniqueCodes]

signinValidation(U, req) ==
    /\ req.password # ""
    /\ \/ req.uniqueCode = Undefined
       \/ \A i \in findByEmail(U, normalizeEmail(req.email)) :
             U[i].role \in Privileged => req.uniqueCode = SharedCode

(* unknownEmail answering that the account does not exist *)
unknownEmail_NotFound(U) == Fail(U, 404, "USER_NOT_FOUND")

(* The answer to a sign-in for an email no account has *)
unknownEmail(U) == Fail(U, 401, "INVALID_CREDENTIALS")

(* signinGate without the isActive check *)
signinGate_NoActive(user, t) ==
    IF isLocked(user, t) THEN [status |-> 423, code |-> "ACCOUNT_LOCKED"]
    ELSE [status |-> 200, code |-> "PASS"]

(* signinGate that looks at isActive before the lock *)
signinGate_ActiveFirst(user, t) ==
    IF ~user.isActive THEN [status |-> 401, code |-> "ACCOUNT_DEACTIVATED"]
    ELSE IF isLocked(user, t) THEN [status |-> 423, code |-> "ACCOUNT_LOCKED"]
    ELSE [status |-> 200, code |-> "PASS"]

(* signinGate without the lock check *)
signinGate_NoLock(user, t) ==
    IF ~user.isActive THEN [status |-> 401, code |-> "ACCOUNT_DEACTIVATED"]
    ELSE [status |-> 200, code |-> "PASS"]

(* The account-state checks that precede the password check *)
signinGate(user, t) ==
    IF isLocked(user, t) THEN [status |-> 423, code |-> "ACCOUNT_LOCKED"]
    ELSE IF ~user.isActive THEN [status |-> 401, code |-> "ACCOUNT_DEACTIVATED"]
    ELSE [status |-> 200, code |-> "PASS"]

(* signin that does not count the failed attempt *)
signin_NoCount(U, t, req) ==
    LET found == findByEmail(U, normalizeEmail(req.email)) IN
    IF ~signinValidation(U, req) THEN Fail(U, 400, "VALIDATION_FAILED")
    ELSE IF found = {} THEN unknownEmail(U)
    ELSE LET id == CHOOSE i \in found : TRUE
             user == U[id]
             g == signinGate(user, t)
         IN IF g.code # "PASS" THEN Fail(U, g.status, g.code)
            ELSE IF ~comparePassword(user, req.password)
            THEN Fail(U, 401, "INVALID_CREDENTIALS")
            ELSE LET U2 == [U EXCEPT ![id] = resetLoginAttempts(user)]
                 IN [users |-> U2,
                     resp |-> [status |-> 200, code |-> "LOGIN_SUCCESS",
                               token |-> <<generateToken(id, t)>>,
                               user |-> <<getPublicProfile(U2, id)>>,
                               lockUntil |-> <<>>]]

(* signin that leaves the counter as it is when the password is right *)
signin_NoReset(U, t, req) ==
    LET found == findByEmail(U, normalizeEmail(req.email)) IN
    IF ~signinValidation(U, req) THEN Fail(U, 400, "VALIDATION_FAILED")
    ELSE IF found = {} THEN unknownEmail(U)
    ELSE LET id == CHOOSE i \in found : TRUE
             user == U[id]
             g == signinGate(user, t)
         IN IF g.code # "PASS" THEN Fail(U, g.status, g.code)
            ELSE IF ~comparePassword(user, req.password)
            THEN Fail([U EXCEPT ![id] = incLoginAttempts(user, t)],
                      401, "INVALID_CREDENTIALS")
            ELSE [users |-> U,
                  resp |-> [status |-> 200, code |-> "LOGIN_SUCCESS",
                            token |-> <<generateToken(id, t)>>,
                            user |-> <<getPublicProfile(U, id)>>,
                            lockUntil |-> <<>>]]

(* signin that counts the attempts turned down by the account-state checks *)
signin_CountsTurnedDown(U, t, req) ==
    LET found == findByEmail(U, normalizeEmail(req.email)) IN
    IF ~signinValidation(U, req) THEN Fail(U, 400, "VALIDATION_FAILED")
    ELSE IF found = {} THEN unknownEmail(U)
    ELSE LET id == CHOOSE i \in found : TRUE
             user == U[id]
             g == signinGate(user, t)
         IN IF g.code # "PASS"
            THEN Fail([U EXCEPT ![id] = incLoginAttempts(user, t)],
                      g.status, g.code)
            ELSE IF ~comparePassword(user, req.password)
            THEN Fail([U EXCEPT ![id] = incLoginAttempts(user, t)],
                      401, "INVALID_CREDENTIALS")
            ELSE LET U2 == [U EXCEPT ![id] = resetLoginAttempts(user)]
                 IN [users |-> U2,
                     resp |-> [status |-> 200, code |-> "LOGIN_SUCCESS",
                               token |-> <<generateToken(id, t)>>,
                               user |-> <<getPublicProfile(U2, id)>>,
                               lockUntil |-> <<>>]]

(* signin that does not compare the password *)
signin_NoCompare(U, t, req) ==
    LET found == findByEmail(U, normalizeEmail(req.email)) IN
    IF ~signinValidation(U, req) THEN Fail(U, 400, "VALIDATION_FAILED")
    ELSE IF found = {} THEN unknownEmail(U)
    ELSE LET id == CHOOSE i \in found : TRUE
             user == U[id]
             g == signinGate(user, t)
         IN IF g.code # "PASS" THEN Fail(U, g.status, g.code)
            ELSE LET U2 == [U EXCEPT ![id] = resetLoginAttempts(user)]
                 IN [users |-> U2,
                     resp |-> [status |-> 200, code |-> "LOGIN_SUCCESS",
                               token |-> <<generateToken(id, t)>>,
                               user |-> <<getPublicProfile(U2, id)>>,
                               lockUntil |-> <<>>]]

signin(U, t, req) ==
    LET found == findByEmail(U, normalizeEmail(req.email)) IN
    IF ~signinValidation(U, req) THEN Fail(U, 400, "VALIDATION_FAILED")
    ELSE IF found = {} THEN unknownEmail(U)
    ELSE LET id == CHOOSE i \in found : TRUE
             user == U[id]
             g == signinGate(user, t)
         IN IF g.code = "ACCOUNT_LOCKED"
            THEN [users |-> U,
                  resp |-> [Fail(U, g.status, g.code).resp
                               EXCEPT !.lockUntil = user.lockUntil]]
            ELSE IF g.code # "PASS" THEN Fail(U, g.status, g.code)
            ELSE IF ~comparePassword(user, req.password)
            THEN Fail([U EXCEPT ![id] = incLoginAttempts(user, t)],
                      401, "INVALID_CREDENTIALS")
            ELSE LET U2 == [U EXCEPT ![id] = resetLoginAttempts(user)]
                 IN [users |-> U2,
                     resp |-> [status |-> 200, code |-> "LOGIN_SUCCESS",
                               token |-> <<generateToken(id, t)>>,
                               user |-> <<getPublicProfile(U2, id)>>,
                               lockUntil |-> <<>>]]

(* Sign-in under concurrency. The handler reads the account once, with
   findByEmail, and looks at the copy it read from then on; it suspends at
   await user.comparePassword(), and its update of the lockout fields reaches
   the store after the updates of the handlers that ran meanwhile. *)

(* The handler up to await user.comparePassword(): the answer it returns
   early, or PASS with the account it read *)
signinRead(U, t, req) ==
    LET found == findByEmail(U, normalizeEmail(req.email)) IN
    IF ~signinValidation(U, req)
    THEN [code |-> "VALIDATION_FAILED", id |-> 0]
    ELSE IF found = {} THEN [code |-> unknownEmail(U).resp.code, id |-> 0]
    ELSE LET id == CHOOSE i \in found : TRUE
         IN [code |-> signinGate(U[id], t).code, id |-> id]

(* Variant: the failed attempt adds one to the count in the store and
   decides the lock from the count it read *)
signinWrite_AtomicInc(U, t, id, local, req) ==
    IF ~comparePassword(local, req.password)
    THEN Fail([U EXCEPT ![id].loginAttempts = @ + 1,
                        ![id].lockUntil =
                            IF local.loginAttempts + 1 >= LockThreshold
                            THEN <<t + LockDuration>> ELSE @],
              401, "INVALID_CREDENTIALS")
    ELSE LET U2 == [U EXCEPT ![id] = resetLoginAttempts(U[id])]
         IN [users |-> U2,
             resp |-> [status |-> 200, code |-> "LOGIN_SUCCESS",
                       token |-> <<generateToken(id, t)>>,
                       user |-> <<getPublicProfile(U2, id)>>,
                       lockUntil |-> <<>>]]

(* The handler from the result of comparePassword on, for the account it
   read as local; the document is still in the store *)
signinWrite(U, t, id, local, req) ==
    IF ~comparePassword(local, req.password)
    THEN Fail([U EXCEPT ![id] = incLoginAttemptsOf(local, U[id], t)],
              401, "INVALID_CREDENTIALS")
    ELSE LET U2 == [U EXCEPT ![id] = resetLoginAttempts(U[id])]
         IN [users |-> U2,
             resp |-> [status |-> 200, code |-> "LOGIN_SUCCESS",
                       token |-> <<generateToken(id, t)>>,
                       user |-> <<getPublicProfile(U2, id)>>,
                       lockUntil |-> <<>>]]

----------------------------------------------------------------------------
(* Role middleware *)

(* requireRole that lets every role through *)
requireRole_Any(allowed, role) == TRUE

requireRole(allowed, role) == role \in allowed

requireUser == {"user"}
requireAdmin == {"admin", "superadmin"}
requireSuperAdmin == {"superadmin"}

(* The middleware chain [authenticateToken, requireRole(allowed)] in front
   of a route: the gate's rejection, the role's rejection, or the caller *)
Admit(U, t, hdr, allowed) ==
    LET g == authenticateToken(U, t, hdr) IN
    IF ~g.ok THEN g
    ELSE IF ~requireRole(allowed, U[g.userId].role)
    THEN [ok |-> FALSE, status |-> 403, code |-> "INSUFFICIENT_PERMISSIONS",
          userId |-> 0]
    ELSE g

(* A document read with select('-password') *)
withoutPassword(U, id) ==
    [id |-> id, email |-> U[id].email, role |-> U[id].role,
     isActive |-> U[id].isActive, loginAttempts |-> U[id].loginAttempts,
     lockUntil |-> U[id].lockUntil, firstName |-> U[id].firstName,
     department |-> U[id].department]

Ok(U, code, body) ==
    [users |-> U, resp |-> [status |-> 200, code |-> code, token |-> <<>>,
                            user |-> body,
                            lockUntil |-> <<>>]]

----------------------------------------------------------------------------
(* GET /api/auth/me *)

me(U, t, hdr) ==
    LET a == Admit(U, t, hdr, Roles) IN
    IF ~a.ok THEN Fail(U, a.status, a.code)
    ELSE Ok(U, "PROFILE", <<getPublicProfile(U, a.userId)>>)

----------------------------------------------------------------------------
(* POST /api/auth/logout *)

logout(U, t, hdr) ==
    LET a == Admit(U, t, hdr, Roles) IN
    IF ~a.ok THEN Fail(U, a.status, a.code)
    ELSE Ok(U, "LOGOUT_SUCCESS", <<>>)

----------------------------------------------------------------------------
(* POST /api/auth/refresh *)

(* refresh that hands back a token with the expiry of the presented one *)
refresh_Stale(U, t, hdr) ==
    LET a == Admit(U, t, hdr, Roles) IN
    IF ~a.ok THEN Fail(U, a.status, a.code)
    ELSE [users |-> U,
          resp |-> [status |-> 200, code |-> "TOKEN_REFRESHED",
                    token |-> <<[generateToken(a.userId, t)
                                    EXCEPT !.exp = hdr[1].exp]>>,
                    user |-> <<>>,
                    lockUntil |-> <<>>]]

refresh(U, t, hdr) ==
    LET a == Admit(U, t, hdr, Roles) IN
    IF ~a.ok THEN Fail(U, a.status, a.code)
    ELSE [users |-> U,
          resp |-> [status |-> 200, code |-> "TOKEN_REFRESHED",
                    token |-> <<generateToken(a.userId, t)>>, user |-> <<>>,
                    lockUntil |-> <<>>]]

----------------------------------------------------------------------------
(* POST /api/auth/change-password *)

ChangePasswordReqs ==
    [currentPassword : Passwords \cup {""},
     newPassword : Passwords \cup WeakPasswords]

changePasswordValidation(req) ==
    req.currentPassword # "" /\ passwordRule(req.newPassword)

(* changePassword that also switches the account off *)
changePassword_Revoking(U, t, hdr, salt, req) ==
    LET a == Admit(U, t, hdr, Roles) IN
    IF ~a.ok THEN Fail(U, a.status, a.code)
    ELSE IF ~changePasswordValidation(req)
    THEN Fail(U, 400, "VALIDATION_FAILED")
    ELSE IF ~comparePassword(U[a.userId], req.currentPassword)
    THEN Fail(U, 400, "INVALID_CURRENT_PASSWORD")
    ELSE Ok([U EXCEPT ![a.userId].password =
                         hashPassword(req.newPassword, salt),
                      ![a.userId].isActive = FALSE],
            "PASSWORD_CHANGED", <<>>)

(* changePassword without the comparison of the current password *)
changePassword_NoCompare(U, t, hdr, salt, req) ==
    LET a == Admit(U, t, hdr, Roles) IN
    IF ~a.ok THEN Fail(U, a.status, a.code)
    ELSE IF ~changePasswordValidation(req)
    THEN Fail(U, 400, "VALIDATION_FAILED")
    ELSE Ok([U EXCEPT ![a.userId].password =
                         hashPassword(req.newPassword, salt)],
            "PASSWORD_CHANGED", <<>>)

changePassword(U, t, hdr, salt, req) ==
    LET a == Admit(U, t, hdr, Roles) IN
    IF ~a.ok THEN Fail(U, a.status, a.code)
    ELSE IF ~changePasswordValidation(req)
    THEN Fail(U, 400, "VALIDATION_FAILED")
    ELSE IF ~comparePassword(U[a.userId], req.currentPassword)
    THEN Fail(U, 400, "INVALID_CURRENT_PASSWORD")
    ELSE Ok([U EXCEPT ![a.userId].password =
                         hashPassword(req.newPassword, salt)],
            "PASSWORD_CHANGED", <<>>)

----------------------------------------------------------------------------
(* The handlers of /api/auth with a statement of their try block throwing:
   the read of the account (find), the comparison of the password (compare),
   the write (save: user.save, incLoginAttempts, resetLoginAttempts) or
   generateToken (sign). The catch block answers 500; what was awaited before
   the throw has happened. *)
Faults == {"none", "find", "compare", "save", "sign"}

signupFaulty(U, t, id, salt, req, fault) ==
    LET r == signup(U, t, id, salt, req) IN
    IF ~signupValidation(req) THEN r
    ELSE IF fault = "find" THEN Fail(U, 500, "REGISTRATION_ERROR")
    ELSE IF r.resp.status # 201 THEN r
    ELSE IF fault = "save" THEN Fail(U, 500, "REGISTRATION_ERROR")
    ELSE IF fault = "sign" THEN Fail(r.users, 500, "REGISTRATION_ERROR")
    ELSE r

signinFaulty(U, t, req, fault) ==
    LET r == signin(U, t, req) IN
    IF ~signinValidation(U, req) THEN r
    ELSE IF fault = "find" THEN Fail(U, 500, "AUTHENTICATION_ERROR")
    ELSE IF \/ findByEmail(U, normalizeEmail(req.email)) = {}
            \/ r.resp.code \in {"ACCOUNT_LOCKED", "ACCOUNT_DEACTIVATED"}
    THEN r
    ELSE IF fault \in {"compare", "save"}
    THEN Fail(U, 500, "AUTHENTICATION_ERROR")
    ELSE IF fault = "sign" /\ r.resp.status = 200
    THEN Fail(r.users, 500, "AUTHENTICATION_ERROR")
    ELSE r

changePasswordFaulty(U, t, hdr, salt, req, fault) ==
    LET r == changePassword(U, t, hdr, salt, req) IN
    IF ~Admit(U, t, hdr, Roles).ok \/ ~changePasswordValidation(req) THEN r
    ELSE IF fault \in {"find", "compare"}
    THEN Fail(U, 500, "PASSWORD_CHANGE_ERROR")
    ELSE IF r.resp.status # 200 THEN r
    ELSE IF fault = "save" THEN Fail(U, 500, "PASSWORD_CHANGE_ERROR")
    ELSE r

----------------------------------------------------------------------------
(* /api/admin/users/:userId *)

(* superAdminGuard that holds superadmin callers off as well *)
superAdminGuard_All(targetRole, callerRole) == targetRole = "superadmin"

(* "Admin cannot access / modify / delete super admin accounts" *)
superAdminGuard(targetRole, callerRole) ==
    targetRole = "superadmin" /\ callerRole # "superadmin"

(* promoteGuard left out *)
promoteGuard_Off(role, callerRole) == FALSE

(* "Regular admin cannot promote users to admin role" *)
promoteGuard(role, callerRole) ==
    role = "admin" /\ callerRole # "superadmin"

(* "Regular admin cannot delete other admin accounts" *)
adminDeleteGuard(targetRole, callerRole) ==
    targetRole = "admin" /\ callerRole # "superadmin"

adminGetUser(U, t, hdr, tid) ==
    LET a == Admit(U, t, hdr, requireAdmin) IN
    IF ~a.ok THEN Fail(U, a.status, a.code)
    ELSE IF tid \notin DOMAIN U THEN Fail(U, 404, "USER_NOT_FOUND")
    ELSE IF superAdminGuard(U[tid].role, U[a.userId].role)
    THEN Fail(U, 403, "ACCESS_DENIED")
    ELSE Ok(U, "USER", <<withoutPassword(U, tid)>>)

(* The body of PUT /admin/users/:userId. isActive is "true" or "false" for
   the two JSON booleans. *)
AdminPutReqs ==
    [role : Roles \cup {Undefined}, isActive : {Undefined, "true", "false"},
     firstName : {Undefined}, department : {Undefined}]

(* The bodies that change the profile fields *)
AdminPutProfileReqs ==
    [role : {Undefined}, isActive : {Undefined},
     firstName : NameInputs, department : DepartmentInputs]

adminPutValidation(req) ==
    /\ req.firstName = Undefined \/ nameRule(req.firstName)
    /\ req.role \in {Undefined, "user", "admin"}
    /\ departmentRule(req.department)

(* Variant: every field the body gives is written, the empty text too *)
mergeUpdate_Plain(user, req) ==
    [user EXCEPT !.firstName = IF req.firstName # Undefined
                               THEN trim(req.firstName) ELSE @,
                 !.role = IF req.role # Undefined THEN req.role ELSE @,
                 !.isActive = IF req.isActive \in {"true", "false"}
                              THEN req.isActive = "true" ELSE @,
                 !.department = IF req.department # Undefined
                                THEN trim(req.department) ELSE @]

(* The sparse merge given to findByIdAndUpdate, on the sanitized body;
   isActive is taken when typeof isActive === 'boolean' *)
mergeUpdate(user, req) ==
    [user EXCEPT !.firstName = IF truthy(trim(req.firstName))
                               THEN trim(req.firstName) ELSE @,
                 !.role = IF truthy(req.role) THEN req.role ELSE @,
                 !.isActive = IF req.isActive \in {"true", "false"}
                              THEN req.isActive = "true" ELSE @,
                 !.department = IF truthy(trim(req.department))
                                THEN trim(req.department) ELSE @]

adminPutUser(U, t, hdr, tid, req) ==
    LET a == Admit(U, t, hdr, requireAdmin) IN
    IF ~a.ok THEN Fail(U, a.status, a.code)
    ELSE IF ~adminPutValidation(req) THEN Fail(U, 400, "VALIDATION_FAILED")
    ELSE IF tid \notin DOMAIN U THEN Fail(U, 404, "USER_NOT_FOUND")
    ELSE IF superAdminGuard(U[tid].role, U[a.userId].role)
    THEN Fail(U, 403, "ACCESS_DENIED")
    ELSE IF promoteGuard(req.role, U[a.userId].role)
    THEN Fail(U, 403, "ACCESS_DENIED")
    ELSE LET U2 == [U EXCEPT ![tid] = mergeUpdate(U[tid], req)]
         IN Ok(U2, "USER_UPDATED", <<withoutPassword(U2, tid)>>)

(* findByIdAndDelete *)
removeUser(U, id) == [i \in DOMAIN U \ {id} |-> U[i]]

(* Variant: the delete marks the account inactive and keeps the document *)
adminDeleteUser_Soft(U, t, hdr, tid) ==
    LET a == Admit(U, t, hdr, requireAdmin) IN
    IF ~a.ok THEN Fail(U, a.status, a.code)
    ELSE IF tid \notin DOMAIN U THEN Fail(U, 404, "USER_NOT_FOUND")
    ELSE IF superAdminGuard(U[tid].role, U[a.userId].role)
    THEN Fail(U, 403, "ACCESS_DENIED")
    ELSE IF adminDeleteGuard(U[tid].role, U[a.userId].role)
    THEN Fail(U, 403, "ACCESS_DENIED")
    ELSE Ok([U EXCEPT ![tid].isActive = FALSE], "USER_DELETED", <<>>)

adminDeleteUser(U, t, hdr, tid) ==
    LET a == Admit(U, t, hdr, requireAdmin) IN
    IF ~a.ok THEN Fail(U, a.status, a.code)
    ELSE IF tid \notin DOMAIN U THEN Fail(U, 404, "USER_NOT_FOUND")
    ELSE IF superAdminGuard(U[tid].role, U[a.userId].role)
    THEN Fail(U, 403, "ACCESS_DENIED")
    ELSE IF adminDeleteGuard(U[tid].role, U[a.userId].role)
    THEN Fail(U, 403, "ACCESS_DENIED")
    ELSE Ok(removeUser(U, tid), "USER_DELETED", <<>>)

(* DELETE /admin/users/:userId up to its findByIdAndDelete: the gate, the
   read of the target and the two role checks. "PASS" with the caller's role
   as the gate read it, or the failure. *)
adminDeleteCheck(U, t, hdr, tid) ==
    LET a == Admit(U, t, hdr, requireAdmin) IN
    IF ~a.ok THEN [code |-> a.code, callerRole |-> Undefined]
    ELSE IF tid \notin DOMAIN U
    THEN [code |-> "USER_NOT_FOUND", callerRole |-> U[a.userId].role]
    ELSE IF \/ superAdminGuard(U[tid].role, U[a.userId].role)
            \/ adminDeleteGuard(U[tid].role, U[a.userId].role)
    THEN [code |-> "ACCESS_DENIED", callerRole |-> U[a.userId].role]
    ELSE [code |-> "PASS", callerRole |-> U[a.userId].role]

(* The rest of it: findByIdAndDelete by id, whatever the document is by
   then, and the 200 answer *)
adminDeleteRemove(U, tid) == Ok(removeUser(U, tid), "USER_DELETED", <<>>)

(* POST /admin/users/:userId/activate (active = TRUE) and /deactivate *)
setActive(U, t, hdr, tid, active) ==
    LET a == Admit(U, t, hdr, requireAdmin) IN
    IF ~a.ok THEN Fail(U, a.status, a.code)
    ELSE IF tid \notin DOMAIN U THEN Fail(U, 404, "USER_NOT_FOUND")
    ELSE LET U2 == [U EXCEPT ![tid].isActive = active]
         IN Ok(U2, IF active THEN "USER_ACTIVATED" ELSE "USER_DEACTIVATED",
               <<withoutPassword(U2, tid)>>)

----------------------------------------------------------------------------
(* GET /api/admin/users and GET /api/superadmin/users *)

(* req.query: '' stands for a parameter that is not given *)
ListQueries ==
    [search : {"", "a@"}, role : Roles \cup {""},
     isActive : {"", "true", "false"}, page : {1, 2}, limit : {1, 10}]

(* { $regex: search, $options: 'i' } on the email *)
matchesSearch(search, email) == search = "a@" /\ email = "a@x.io"

listFilter(U, q) ==
    {i \in DOMAIN U :
        /\ q.search # "" => matchesSearch(q.search, U[i].email)
        /\ q.role # "" => U[i].role = q.role
        /\ q.isActive # "" => U[i].isActive = (q.isActive = "true")}

(* sort({ createdAt: -1 }): the newest first *)
RECURSIVE newestFirst(_)
newestFirst(S) ==
    IF S = {} THEN <<>>
    ELSE LET m == CHOOSE x \in S : \A y \in S : y <= x
         IN <<m>> \o newestFirst(S \ {m})

(* skip(skip).limit(limit) *)
pageOf(seq, skip, limit) ==
    [k \in 1..(IF Len(seq) - skip < 0 THEN 0
               ELSE IF Len(seq) - skip < limit THEN Len(seq) - skip
               ELSE limit) |-> seq[skip + k]]

(* A document read with select('-password -loginAttempts -lockUntil') *)
listedFields(U, id) ==
    [id |-> id, email |-> U[id].email, role |-> U[id].role,
     isActive |-> U[id].isActive, firstName |-> U[id].firstName,
     department |-> U[id].department]

(* The body's users array; the pagination counters are left out *)
listUsers(U, t, hdr, allowed, q) ==
    LET a == Admit(U, t, hdr, allowed) IN
    IF ~a.ok THEN Fail(U, a.status, a.code)
    ELSE LET found == newestFirst(listFilter(U, q))
             page == pageOf(found, (q.page - 1) * q.limit, q.limit)
         IN Ok(U, "USERS", [k \in DOMAIN page |-> listedFields(U, page[k])])

adminListUsers(U, t, hdr, q) == listUsers(U, t, hdr, requireAdmin, q)

superListUsers(U, t, hdr, q) == listUsers(U, t, hdr, requireSuperAdmin, q)

----------------------------------------------------------------------------
(* GET /api/admin/dashboard *)

countDocuments(U, role, active) ==
    Cardinality({i \in DOMAIN U : U[i].role \in role
                                   /\ U[i].isActive \in active})

(* Every account of the model is younger than seven days *)
dashboard(U, t, hdr) ==
    LET a == Admit(U, t, hdr, requireAdmin) IN
    IF ~a.ok THEN Fail(U, a.status, a.code)
    ELSE Ok(U, "STATS",
            <<[totalUsers |-> countDocuments(U, Roles, BOOLEAN),
               activeUsers |-> countDocuments(U, Roles, {TRUE}),
               inactiveUsers |-> countDocuments(U, Roles, {FALSE}),
               userRoleCount |-> countDocuments(U, {"user"}, BOOLEAN),
               adminRoleCount |-> countDocuments(U, {"admin"}, BOOLEAN),
               superAdminRoleCount |->
                   countDocuments(U, {"superadmin"}, BOOLEAN),
               recentUsers |-> countDocuments(U, Roles, BOOLEAN)]>>)

----------------------------------------------------------------------------
(* POST /api/admin/qrcodes *)

(* req.body.codes: an array of codes, or something that is not an array *)
CodeBatches ==
    {[isArray |-> FALSE, items |-> <<>>]}
    \cup {[isArray |-> TRUE, items |-> c] :
             c \in {<<>>, <<"q1">>, <<"q2">>, <<"q1", "q2">>, <<"q1", "q1">>}}

(* QrCode.insertMany(docs, { ordered: false }): every document whose code
   is not yet in the collection is written; any duplicate makes the call
   fail with error 11000 after the others are written *)
RECURSIVE insertMany(_, _, _)
insertMany(Q, items, createdBy) ==
    IF items = <<>> THEN [qrcodes |-> Q, error |-> 0]
    ELSE LET dup == \E d \in Q : d.code = Head(items)
             Q2 == IF dup THEN Q
                   ELSE Q \cup {[code |-> Head(items),
                                  createdBy |-> createdBy]}
             rest == insertMany(Q2, Tail(items), createdBy)
         IN [qrcodes |-> rest.qrcodes,
             error |-> IF dup THEN DuplicateKey ELSE rest.error]

QrAnswer(U, Q, status) ==
    [users |-> U, qrcodes |-> Q,
     resp |-> [status |-> status, code |-> Undefined, token |-> <<>>,
               user |-> <<>>,
               lockUntil |-> <<>>]]

postQrcodes(U, Q, t, hdr, batch) ==
    LET g == authenticateToken(U, t, hdr) IN
    IF ~g.ok
    THEN [users |-> U, qrcodes |-> Q,
          resp |-> [status |-> g.status, code |-> g.code, token |-> <<>>,
                    user |-> <<>>,
                    lockUntil |-> <<>>]]
    ELSE IF U[g.userId].role # "admin" /\ U[g.userId].role # "superadmin"
    THEN QrAnswer(U, Q, 403)
    ELSE IF ~batch.isArray \/ Len(batch.items) = 0 THEN QrAnswer(U, Q, 400)
    ELSE LET w == insertMany(Q, batch.items, g.userId) IN
         IF w.error = DuplicateKey THEN QrAnswer(U, w.qrcodes, 409)
         ELSE QrAnswer(U, w.qrcodes, 201)

----------------------------------------------------------------------------
(* GET /api/users/:userId behind canAccessUser *)

(* canAccessUser: "PASS" (next()), or the code of its rejection *)
canAccessUser(U, callerId, tid) ==
    IF U[callerId].role = "superadmin" THEN "PASS"
    ELSE IF U[callerId].role = "admin"
    THEN IF tid \notin DOMAIN U THEN "USER_NOT_FOUND"
         ELSE IF U[tid].role \in Privileged THEN "ACCESS_DENIED"
         ELSE "PASS"
    ELSE IF callerId # tid THEN "ACCESS_DENIED"
    ELSE "PASS"

getUser(U, t, hdr, tid) ==
    LET a == Admit(U, t, hdr, Roles) IN
    IF ~a.ok THEN Fail(U, a.status, a.code)
    ELSE LET access == canAccessUser(U, a.userId, tid) IN
         IF access = "USER_NOT_FOUND" THEN Fail(U, 404, access)
         ELSE IF access = "ACCESS_DENIED" THEN Fail(U, 403, access)
         ELSE IF tid \notin DOMAIN U THEN Fail(U, 404, "USER_NOT_FOUND")
         ELSE Ok(U, "USER", <<getPublicProfile(U, tid)>>)

----------------------------------------------------------------------------
(* PUT /api/users/profile *)

(* The body: the profile fields, and a role the caller would like to have *)
ProfileReqs ==
    [firstName : NameInputs, department : DepartmentInputs,
     role : {Undefined, "superadmin"}]

updateProfileValidation(req) ==
    /\ req.firstName = Undefined \/ nameRule(req.firstName)
    /\ departmentRule(req.department)

(* profileMerge that takes the role of the body as well *)
profileMerge_Elevating(user, req) ==
    [user EXCEPT !.firstName = IF truthy(trim(req.firstName))
                               THEN trim(req.firstName) ELSE @,
                 !.department = IF truthy(trim(req.department))
                                THEN trim(req.department) ELSE @,
                 !.role = IF truthy(req.role) THEN req.role ELSE @]

(* The sparse merge given to findByIdAndUpdate, on the sanitized body *)
profileMerge(user, req) ==
    [user EXCEPT !.firstName = IF truthy(trim(req.firstName))
                               THEN trim(req.firstName) ELSE @,
                 !.department = IF truthy(trim(req.department))
                                THEN trim(req.department) ELSE @]

updateProfile(U, t, hdr, req) ==
    LET a == Admit(U, t, hdr, Roles) IN
    IF ~a.ok THEN Fail(U, a.status, a.code)
    ELSE IF ~updateProfileValidation(req)
    THEN Fail(U, 400, "VALIDATION_FAILED")
    ELSE LET U2 == [U EXCEPT ![a.userId] = profileMerge(U[a.userId], req)]
         IN Ok(U2, "PROFILE_UPDATED", <<getPublicProfile(U2, a.userId)>>)

----------------------------------------------------------------------------
(* DELETE /api/users/profile *)

(* deleteProfile that switches the account off and keeps the document *)
deleteProfile_Soft(U, t, hdr) ==
    LET a == Admit(U, t, hdr, Roles) IN
    IF ~a.ok THEN Fail(U, a.status, a.code)
    ELSE Ok([U EXCEPT ![a.userId].isActive = FALSE], "ACCOUNT_DELETED", <<>>)

deleteProfile(U, t, hdr) ==
    LET a == Admit(U, t, hdr, Roles) IN
    IF ~a.ok THEN Fail(U, a.status, a.code)
    ELSE Ok(removeUser(U, a.userId), "ACCOUNT_DELETED", <<>>)

----------------------------------------------------------------------------
(* POST /api/superadmin/users *)

CreateReqs ==
    [email : RawEmails, password : {"Abcdef1"}, role : Roles,
     firstName : {"Ann"}, department : {Undefined}]

createUserValidation(req) ==
    /\ nameRule(req.firstName)
    /\ passwordRule(req.password)
    /\ req.role \in Roles
    /\ departmentRule(req.department)

(* The handler up to its find-by-email check: the middleware's rejection,
   the 400 answer, or "PASS" *)
createUserCheck(U, t, hdr, req) ==
    LET a == Admit(U, t, hdr, requireSuperAdmin) IN
    IF ~a.ok THEN [status |-> a.status, code |-> a.code]
    ELSE IF ~createUserValidation(req)
    THEN [status |-> 400, code |-> "VALIDATION_FAILED"]
    ELSE IF findByEmail(U, normalizeEmail(req.email)) # {}
    THEN [status |-> 400, code |-> "EMAIL_EXISTS"]
    ELSE [status |-> 200, code |-> "PASS"]

(* The handler from new User({...}) on *)
createUserSave(U, id, salt, req) ==
    LET s == saveUser(U, id, NewUser(normalizeEmail(req.email), req.password,
                                     salt, req.role, trim(req.firstName),
                                     trim(req.department)))
    IN IF s.error = DuplicateKey THEN Fail(U, 400, "EMAIL_EXISTS")
       ELSE [users |-> s.users,
             resp |-> [status |-> 201, code |-> "USER_CREATED",
                       token |-> <<>>,
                       user |-> <<getPublicProfile(s.users, id)>>,
                       lockUntil |-> <<>>]]

createUser(U, t, hdr, id, salt, req) ==
    LET c == createUserCheck(U, t, hdr, req) IN
    IF c.code # "PASS" THEN Fail(U, c.status, c.code)
    ELSE createUserSave(U, id, salt, req)

----------------------------------------------------------------------------
(* The client: AuthContext and the axios instance *)

(* What the client can receive: the tokens and public profiles of responses,
   and the message of an error *)
ClientTokens == {"t1", "t2"}
ClientUsers == {"u1", "u2"}
Message == "message"

(* What becomes of a request: a 2xx response, a 401 response, or another
   error (another status, or no response at all) *)
Outcomes == {"ok", "401", "error"}

(* null is <<>>, a value v is <<v>> *)
initialState(stored) ==
    [user |-> <<>>, token |-> stored, isAuthenticated |-> FALSE,
     loading |-> TRUE, error |-> <<>>]

(* Variant: LOGIN_FAIL, AUTH_ERROR and LOGOUT leave loading as it is *)
authReducer_KeepsLoading(st, ls, type, payload) ==
    CASE type = "LOGIN_SUCCESS" ->
            [localStorage |-> <<payload.token>>,
             state |-> [st EXCEPT !.token = <<payload.token>>,
                                  !.user = <<payload.user>>,
                                  !.isAuthenticated = TRUE,
                                  !.loading = FALSE,
                                  !.error = <<>>]]
      [] type = "USER_LOADED" ->
            [localStorage |-> ls,
             state |-> [st EXCEPT !.user = <<payload>>,
                                  !.isAuthenticated = TRUE,
                                  !.loading = FALSE,
                                  !.error = <<>>]]
      [] type \in {"LOGIN_FAIL", "AUTH_ERROR", "LOGOUT"} ->
            [localStorage |-> <<>>,
             state |-> [st EXCEPT !.token = <<>>,
                                  !.user = <<>>,
                                  !.isAuthenticated = FALSE,
                                  !.error = payload]]
      [] type = "CLEAR_ERROR" ->
            [localStorage |-> ls, state |-> [st EXCEPT !.error = <<>>]]
      [] type = "SET_LOADING" ->
            [localStorage |-> ls, state |-> [st EXCEPT !.loading = payload]]
      [] OTHER -> [localStorage |-> ls, state |-> st]

(* authReducer, with what it does to the 'token' entry of localStorage *)
authReducer(st, ls, type, payload) ==
    CASE type = "LOGIN_SUCCESS" ->
            [localStorage |-> <<payload.token>>,
             state |-> [st EXCEPT !.token = <<payload.token>>,
                                  !.user = <<payload.user>>,
                                  !.isAuthenticated = TRUE,
                                  !.loading = FALSE,
                                  !.error = <<>>]]
      [] type = "USER_LOADED" ->
            [localStorage |-> ls,
             state |-> [st EXCEPT !.user = <<payload>>,
                                  !.isAuthenticated = TRUE,
                                  !.loading = FALSE,
                                  !.error = <<>>]]
      [] type \in {"LOGIN_FAIL", "AUTH_ERROR", "LOGOUT"} ->
            [localStorage |-> <<>>,
             state |-> [st EXCEPT !.token = <<>>,
                                  !.user = <<>>,
                                  !.isAuthenticated = FALSE,
                                  !.loading = FALSE,
                                  !.error = payload]]
      [] type = "CLEAR_ERROR" ->
            [localStorage |-> ls, state |-> [st EXCEPT !.error = <<>>]]
      [] type = "SET_LOADING" ->
            [localStorage |-> ls, state |-> [st EXCEPT !.loading = payload]]
      [] OTHER -> [localStorage |-> ls, state |-> st]

(* Variant: a 401 removes the stored token and the page stays *)
responseInterceptor_NoRedirect(ls, loc, outcome) ==
    IF outcome = "401" THEN [localStorage |-> <<>>, location |-> loc]
    ELSE [localStorage |-> ls, location |-> loc]

(* The response interceptor of the axios instance, on a rejected request: a
   401 removes the stored token and sends the page to /login *)
responseInterceptor(ls, loc, outcome) ==
    IF outcome = "401" THEN [localStorage |-> <<>>, location |-> "/login"]
    ELSE [localStorage |-> ls, location |-> loc]

(* A function without one element of its domain *)
Without(f, s) == [x \in DOMAIN f \ {s} |-> f[x]]

CallSlots == 1..MaxCalls

FreeCall == CHOOSE c \in CallSlots \ DOMAIN calls :
               \A x \in CallSlots \ DOMAIN calls : c <= x

(* dispatch(action), and the record of the call that completed, if one did *)
Dispatch(st, ls, type, payload) ==
    /\ state' = authReducer(st, ls, type, payload).state
    /\ localStorage' = authReducer(st, ls, type, payload).localStorage

Completed(op, request) == done' = [op |-> op, request |-> request]

(* The request interceptor: the Authorization header of a request is the
   token of localStorage when there is one, else the default header *)
Authorization == IF localStorage # <<>> THEN localStorage ELSE defaults

(* A call that awaits the response to its request, and whether the request
   bore a token *)
Call(op) == [op |-> op, bearer |-> Authorization # <<>>]

(* The requests to routes behind the authentication gate *)
Gated == {"loadUser", "logout", "updateProfile"}

(* What can become of the request of a call: the gate answers a request
   without a token 401 *)
OutcomesOf(call) ==
    IF call.op \in Gated /\ ~call.bearer THEN Outcomes \ {"ok"} ELSE Outcomes

(* useEffect(() => { loadUser(); }, []) and loadUser up to its await *)
Mount ==
    \E c \in DOMAIN calls :
       /\ calls[c].op = "mount"
       /\ IF state.token = <<>>
          THEN /\ Dispatch(state, localStorage, "SET_LOADING", FALSE)
               /\ calls' = Without(calls, c)
               /\ Completed("loadUser", "none")
               /\ UNCHANGED defaults
          ELSE /\ defaults' = state.token
               /\ calls' = [calls EXCEPT ![c] = [op |-> "loadUser",
                                                 bearer |-> TRUE]]
               /\ UNCHANGED <<state, localStorage, done>>
       /\ UNCHANGED <<location, serverVars>>

(* loadUser from the response to GET /api/auth/me on *)
LoadUserResponse ==
    \E c \in DOMAIN calls, outcome \in Outcomes, user \in ClientUsers :
       /\ calls[c].op = "loadUser" /\ outcome \in OutcomesOf(calls[c])
       /\ calls' = Without(calls, c)
       /\ IF outcome = "ok"
          THEN /\ Dispatch(state, localStorage, "USER_LOADED", user)
               /\ UNCHANGED location
          ELSE LET i == responseInterceptor(localStorage, location, outcome)
               IN /\ Dispatch(state, i.localStorage, "AUTH_ERROR",
                              <<Message>>)
                  /\ location' = i.location
       /\ Completed("loadUser", outcome)
       /\ UNCHANGED <<serverVars, defaults>>

(* login and register up to their await: SET_LOADING, then the request *)
Submit(op) ==
    /\ DOMAIN calls # CallSlots
    /\ Dispatch(state, localStorage, "SET_LOADING", TRUE)
    /\ calls' = (FreeCall :> Call(op)) @@ calls
    /\ UNCHANGED <<location, done, serverVars, defaults>>

(* login and register from the response on *)
SubmitResponse(op) ==
    \E c \in DOMAIN calls, outcome \in Outcomes,
       token \in ClientTokens, user \in ClientUsers :
       /\ calls[c].op = op
       /\ calls' = Without(calls, c)
       /\ IF outcome = "ok"
          THEN /\ Dispatch(state, localStorage, "LOGIN_SUCCESS",
                           [token |-> token, user |-> user])
               /\ UNCHANGED location
          ELSE LET i == responseInterceptor(localStorage, location, outcome)
               IN /\ Dispatch(state, i.localStorage, "LOGIN_FAIL",
                              <<Message>>)
                  /\ location' = i.location
       /\ Completed(op, outcome)
       /\ UNCHANGED <<serverVars, defaults>>

(* logout up to its await; with no token in the state no request is sent and
   the finally block runs at once *)
ClientLogout ==
    IF state.token # <<>>
    THEN /\ DOMAIN calls # CallSlots
         /\ calls' = (FreeCall :> Call("logout")) @@ calls
         /\ UNCHANGED <<state, localStorage, location, done, serverVars,
                        defaults>>
    ELSE /\ Dispatch(state, localStorage, "LOGOUT", <<>>)
         /\ Completed("logout", "none")
         /\ UNCHANGED <<calls, location, serverVars, defaults>>

(* LogoutResponse with the dispatch at the end of the try block and no
   finally block: a failed request leaves the state as it is *)
LogoutResponse_NoFinally ==
    \E c \in DOMAIN calls, outcome \in Outcomes :
       /\ calls[c].op = "logout" /\ outcome \in OutcomesOf(calls[c])
       /\ calls' = Without(calls, c)
       /\ IF outcome = "ok"
          THEN /\ Dispatch(state, localStorage, "LOGOUT", <<>>)
               /\ UNCHANGED location
          ELSE LET i == responseInterceptor(localStorage, location, outcome)
               IN /\ localStorage' = i.localStorage
                  /\ location' = i.location
                  /\ UNCHANGED state
       /\ Completed("logout", outcome)
       /\ UNCHANGED <<serverVars, defaults>>

(* logout from the response to POST /api/auth/logout on: the catch block
   logs, the finally block dispatches LOGOUT *)
LogoutResponse ==
    \E c \in DOMAIN calls, outcome \in Outcomes :
       /\ calls[c].op = "logout" /\ outcome \in OutcomesOf(calls[c])
       /\ calls' = Without(calls, c)
       /\ LET i == IF outcome = "ok"
                   THEN [localStorage |-> localStorage,
                         location |-> location]
                   ELSE responseInterceptor(localStorage, location, outcome)
          IN /\ Dispatch(state, i.localStorage, "LOGOUT", <<>>)
             /\ location' = i.location
       /\ Completed("logout", outcome)
       /\ UNCHANGED <<serverVars, defaults>>

(* updateProfile up to its await *)
ClientUpdateProfile ==
    /\ DOMAIN calls # CallSlots
    /\ calls' = (FreeCall :> Call("updateProfile")) @@ calls
    /\ UNCHANGED <<state, localStorage, location, done, serverVars, defaults>>

(* updateProfile from the response on *)
UpdateProfileResponse ==
    \E c \in DOMAIN calls, outcome \in Outcomes, user \in ClientUsers :
       /\ calls[c].op = "updateProfile"
       /\ outcome \in OutcomesOf(calls[c])
       /\ calls' = Without(calls, c)
       /\ IF outcome = "ok"
          THEN /\ Dispatch(state, localStorage, "USER_LOADED", user)
               /\ UNCHANGED location
          ELSE LET i == responseInterceptor(localStorage, location, outcome)
               IN /\ localStorage' = i.localStorage
                  /\ location' = i.location
                  /\ UNCHANGED state
       /\ Completed("updateProfile", outcome)
       /\ UNCHANGED <<serverVars, defaults>>

ClearError ==
    /\ state.error # <<>>
    /\ Dispatch(state, localStorage, "CLEAR_ERROR", <<>>)
    /\ UNCHANGED <<calls, location, done, serverVars, defaults>>

(* The page is replaced: the requests of the old page have nobody to answer
   to, and the application starts again from what localStorage holds *)
Reload ==
    /\ location = "/login"
    /\ location' = ""
    /\ state' = initialState(localStorage)
    /\ calls' = (1 :> [op |-> "mount", bearer |-> FALSE])
    /\ defaults' = <<>>
    /\ UNCHANGED <<localStorage, done, serverVars>>

(* The application starts with or without a token left in localStorage *)
InitClient ==
    /\ users = <<>> /\ nextId = 1 /\ now = 0 /\ tokens = {}
    /\ failStreak = <<>> /\ inflight = <<>> /\ qrcodes = {}
    /\ localStorage \in {<<>>} \cup {<<k>> : k \in ClientTokens}
    /\ state = initialState(localStorage)
    /\ calls = (1 :> [op |-> "mount", bearer |-> FALSE])
    /\ location = ""
    /\ done = [op |-> "none", request |-> "none"]
    /\ defaults = <<>>

NextClient ==
    \/ Mount \/ LoadUserResponse
    \/ Submit("login") \/ SubmitResponse("login")
    \/ Submit("register") \/ SubmitResponse("register")
    \/ ClientLogout \/ LogoutResponse
    \/ ClientUpdateProfile \/ UpdateProfileResponse
    \/ ClearError \/ Reload

SpecClient == InitClient /\ [][NextClient]_vars

(* The same, where the mount effect runs and every request that is awaited
   gets its response or its error *)
Responses ==
    /\ WF_vars(Mount) /\ WF_vars(LoadUserResponse)
    /\ WF_vars(SubmitResponse("login")) /\ WF_vars(SubmitResponse("register"))
    /\ WF_vars(LogoutResponse) /\ WF_vars(UpdateProfileResponse)

SpecClientLive == SpecClient /\ Responses

----------------------------------------------------------------------------
(* Requests and the state machine *)

(* A token nobody signed with the server's key *)
Forged ==
    [userId |-> 1, iat |-> 0, exp |-> TokenLifetime + LateTicks + 1,
     sig |-> "forged"]

(* The Authorization headers a client can send: none, a forged token, or a
   token it kept *)
Headers == {<<>>, <<Forged>>} \cup {<<k>> : k \in tokens}

(* A client holds at most MaxTokens tokens: it may drop the token of the
   response, or keep it, in place of an older one when it has no room. *)
Keep(resp) ==
    IF resp.token = <<>> THEN {tokens}
    ELSE {tokens} \cup
         {(tokens \ D) \cup {resp.token[1]} :
             D \in {X \in SUBSET tokens : Cardinality(tokens \ X) < MaxTokens}}

(* The history variable after a request that took the store from U to U2:
   accounts come and go, the streaks of the others stay *)
Streak(U2) ==
    [i \in DOMAIN U2 |-> IF i \in DOMAIN failStreak THEN failStreak[i] ELSE 0]

Init ==
    /\ users = <<>>
    /\ nextId = 1
    /\ now = 0
    /\ tokens = {}
    /\ failStreak = <<>>
    /\ inflight = <<>>
    /\ qrcodes = {}
    /\ localStorage = <<>>
    /\ state = initialState(<<>>)
    /\ calls = <<>>
    /\ location = ""
    /\ done = [op |-> "none", request |-> "none"]
    /\ defaults = <<>>

SignupWithin(reqs, salts, maxId) ==
    \E req \in reqs, salt \in salts :
       LET r == signup(users, now, nextId, salt, req) IN
       /\ nextId <= maxId \/ r.resp.status # 201
       /\ users' = r.users
       /\ nextId' = IF r.resp.status = 201 THEN nextId + 1 ELSE nextId
       /\ tokens' \in Keep(r.resp)
       /\ failStreak' = Streak(r.users)
       /\ UNCHANGED <<now, inflight, qrcodes, clientVars>>

SignupOf(reqs, salts) == SignupWithin(reqs, salts, MaxUsers)

Signup == SignupOf(SignupReqs, Salts)

SigninOf(reqs, attempts) ==
    \E req \in reqs :
       LET r == signin(users, now, req) IN
       /\ \A i \in DOMAIN r.users : r.users[i].loginAttempts <= attempts
       /\ users' = r.users
       /\ tokens' \in Keep(r.resp)
       /\ failStreak' =
             [i \in DOMAIN users |->
                 IF users[i].email # normalizeEmail(req.email) THEN failStreak[i]
                 ELSE IF r.resp.status = 200 THEN 0
                 ELSE IF r.resp.code = "INVALID_CREDENTIALS"
                 THEN failStreak[i] + 1
                 ELSE failStreak[i]]
       /\ UNCHANGED <<nextId, now, inflight, qrcodes, clientVars>>

SigninUpTo(attempts) == SigninOf(SigninReqs, attempts)

Signin == SigninUpTo(MaxAttempts)

Me ==
    \E hdr \in Headers :
       LET r == me(users, now, hdr) IN
       /\ users' = r.users
       /\ UNCHANGED <<nextId, now, tokens, failStreak, inflight, qrcodes,
                      clientVars>>

AdminGetUser ==
    \E hdr \in Headers, tid \in Ids :
       LET r == adminGetUser(users, now, hdr, tid) IN
       /\ users' = r.users
       /\ UNCHANGED <<nextId, now, tokens, failStreak, inflight, qrcodes,
                      clientVars>>

AdminPutUser ==
    \E hdr \in Headers, tid \in Ids, req \in AdminPutReqs :
       LET r == adminPutUser(users, now, hdr, tid, req) IN
       /\ users' = r.users
       /\ UNCHANGED <<nextId, now, tokens, failStreak, inflight, qrcodes,
                      clientVars>>

AdminDeleteUser ==
    \E hdr \in Headers, tid \in Ids :
       LET r == adminDeleteUser(users, now, hdr, tid) IN
       /\ users' = r.users
       /\ failStreak' = Streak(r.users)
       /\ UNCHANGED <<nextId, now, tokens, inflight, qrcodes, clientVars>>

Activate ==
    \E hdr \in Headers, tid \in Ids :
       LET r == setActive(users, now, hdr, tid, TRUE) IN
       /\ users' = r.users
       /\ UNCHANGED <<nextId, now, tokens, failStreak, inflight, qrcodes,
                      clientVars>>

Deactivate ==
    \E hdr \in Headers, tid \in Ids :
       LET r == setActive(users, now, hdr, tid, FALSE) IN
       /\ users' = r.users
       /\ UNCHANGED <<nextId, now, tokens, failStreak, inflight, qrcodes,
                      clientVars>>

Logout ==
    \E hdr \in Headers :
       LET r == logout(users, now, hdr) IN
       /\ users' = r.users
       /\ UNCHANGED <<nextId, now, tokens, failStreak, inflight, qrcodes,
                      clientVars>>

Refresh ==
    \E hdr \in Headers :
       LET r == refresh(users, now, hdr) IN
       /\ users' = r.users
       /\ tokens' \in Keep(r.resp)
       /\ UNCHANGED <<nextId, now, failStreak, inflight, qrcodes, clientVars>>

ChangePassword ==
    \E hdr \in Headers, salt \in Salts, req \in ChangePasswordReqs :
       LET r == changePassword(users, now, hdr, salt, req) IN
       /\ users' = r.users
       /\ UNCHANGED <<nextId, now, tokens, failStreak, inflight, qrcodes,
                      clientVars>>

AdminListUsers ==
    \E hdr \in Headers, q \in ListQueries :
       LET r == adminListUsers(users, now, hdr, q) IN
       /\ users' = r.users
       /\ UNCHANGED <<nextId, now, tokens, failStreak, inflight, qrcodes,
                      clientVars>>

SuperListUsers ==
    \E hdr \in Headers, q \in ListQueries :
       LET r == superListUsers(users, now, hdr, q) IN
       /\ users' = r.users
       /\ UNCHANGED <<nextId, now, tokens, failStreak, inflight, qrcodes,
                      clientVars>>

Dashboard ==
    \E hdr \in Headers :
       LET r == dashboard(users, now, hdr) IN
       /\ users' = r.users
       /\ UNCHANGED <<nextId, now, tokens, failStreak, inflight, qrcodes,
                      clientVars>>

PostQrcodes ==
    \E hdr \in Headers, batch \in CodeBatches :
       LET r == postQrcodes(users, qrcodes, now, hdr, batch) IN
       /\ users' = r.users
       /\ qrcodes' = r.qrcodes
       /\ UNCHANGED <<nextId, now, tokens, failStreak, inflight, clientVars>>

GetUser ==
    \E hdr \in Headers, tid \in Ids :
       LET r == getUser(users, now, hdr, tid) IN
       /\ users' = r.users
       /\ UNCHANGED <<nextId, now, tokens, failStreak, inflight, qrcodes,
                      clientVars>>

UpdateProfile ==
    \E hdr \in Headers, req \in ProfileReqs :
       LET r == updateProfile(users, now, hdr, req) IN
       /\ users' = r.users
       /\ UNCHANGED <<nextId, now, tokens, failStreak, inflight, qrcodes,
                      clientVars>>

AdminPutProfile ==
    \E hdr \in Headers, tid \in Ids, req \in AdminPutProfileReqs :
       LET r == adminPutUser(users, now, hdr, tid, req) IN
       /\ users' = r.users
       /\ UNCHANGED <<nextId, now, tokens, failStreak, inflight, qrcodes,
                      clientVars>>

DeleteProfile ==
    \E hdr \in Headers :
       LET r == deleteProfile(users, now, hdr) IN
       /\ users' = r.users
       /\ failStreak' = Streak(r.users)
       /\ UNCHANGED <<nextId, now, tokens, inflight, qrcodes, clientVars>>

CreateUser ==
    \E hdr \in Headers, req \in CreateReqs, salt \in Salts :
       LET r == createUser(users, now, hdr, nextId, salt, req) IN
       /\ nextId <= MaxUsers \/ r.resp.status # 201
       /\ users' = r.users
       /\ nextId' = IF r.resp.status = 201 THEN nextId + 1 ELSE nextId
       /\ failStreak' = Streak(r.users)
       /\ UNCHANGED <<now, tokens, inflight, qrcodes, clientVars>>

(* Time passes *)
Tick ==
    /\ \E t \in Times : t > now /\ now' = t
    /\ UNCHANGED <<users, nextId, tokens, failStreak, inflight, qrcodes, clientVars>>

Next ==
    \/ Signup \/ Signin \/ Me
    \/ Logout \/ Refresh
    \/ AdminGetUser \/ AdminPutUser \/ AdminDeleteUser
    \/ Activate \/ Deactivate
    \/ GetUser \/ DeleteProfile \/ CreateUser
    \/ Tick

Spec == Init /\ [][Next]_vars

(* Sessions: the life of tokens across password changes, refreshes, logouts
   and the end of accounts. Wrong passwords are tried SessionAttempts times
   per account. *)
SigninBriefly == SigninUpTo(SessionAttempts)

NextSession ==
    \/ Signup \/ SigninBriefly \/ Me
    \/ Logout \/ Refresh \/ ChangePassword
    \/ Activate \/ Deactivate \/ DeleteProfile
    \/ Tick

SpecSession == Init /\ [][NextSession]_vars

(* Passwords: sign-ins, up to the lockout, on accounts that change their
   password, within one hour *)
NextPassword == Signup \/ Signin \/ ChangePassword

SpecPassword == Init /\ [][NextPassword]_vars

(* Credentials: accounts registered with each of the passwords, hashed under
   fresh salts, and sign-ins that try each password on each account *)
CredentialSignupReqs ==
    [email : RawEmails, password : Passwords, role : {Undefined},
     uniqueCode : {Undefined}, firstName : {"Ann"}, department : {Undefined}]

CredentialSigninReqs ==
    [email : RawEmails, password : Passwords \cup WeakPasswords,
     uniqueCode : {Undefined}]

SignupFresh == SignupOf(CredentialSignupReqs, FreshSalts)

SigninAny == SigninOf(CredentialSigninReqs, CredentialAttempts)

NextCredentials == SignupFresh \/ SigninAny

SpecCredentials == Init /\ [][NextCredentials]_vars

----------------------------------------------------------------------------
(* Failures: the /api/auth handlers with any of their statements throwing *)
SignupFaulty ==
    \E req \in CredentialSignupReqs, salt \in Salts, fault \in Faults :
       LET r == signupFaulty(users, now, nextId, salt, req, fault) IN
       /\ nextId <= MaxUsers \/ r.users = users
       /\ users' = r.users
       /\ nextId' = IF r.users # users THEN nextId + 1 ELSE nextId
       /\ tokens' \in Keep(r.resp)
       /\ failStreak' = Streak(r.users)
       /\ UNCHANGED <<now, inflight, qrcodes, clientVars>>

SigninFaulty ==
    \E req \in CredentialSigninReqs, fault \in Faults :
       LET r == signinFaulty(users, now, req, fault) IN
       /\ \A i \in DOMAIN r.users :
             r.users[i].loginAttempts <= CredentialAttempts
       /\ users' = r.users
       /\ tokens' \in Keep(r.resp)
       /\ failStreak' =
             [i \in DOMAIN users |->
                 IF r.users[i].loginAttempts = 0 THEN 0
                 ELSE IF r.users[i] # users[i] THEN failStreak[i] + 1
                 ELSE failStreak[i]]
       /\ UNCHANGED <<nextId, now, inflight, qrcodes, clientVars>>

ChangePasswordFaulty ==
    \E hdr \in Headers, salt \in Salts, req \in ChangePasswordReqs,
       fault \in Faults :
       LET r == changePasswordFaulty(users, now, hdr, salt, req, fault) IN
       /\ users' = r.users
       /\ UNCHANGED <<nextId, now, tokens, failStreak, inflight, qrcodes,
                      clientVars>>

NextFaults == SignupFaulty \/ SigninFaulty \/ ChangePasswordFaulty

SpecFaults == Init /\ [][NextFaults]_vars

----------------------------------------------------------------------------
(* Profiles: the routes that write the profile fields *)
NextProfile ==
    \/ Signup \/ Me
    \/ UpdateProfile \/ AdminPutProfile
    \/ AdminPutUser \/ DeleteProfile

SpecProfile == Init /\ [][NextProfile]_vars

----------------------------------------------------------------------------
(* Administration: the /admin and /superadmin routes, the listings and the
   QR codes included, on accounts that sign up and are created. *)
NextAdmin ==
    \/ Signup \/ Me
    \/ AdminListUsers \/ AdminGetUser \/ AdminPutUser \/ AdminDeleteUser
    \/ Activate \/ Deactivate \/ Dashboard \/ PostQrcodes
    \/ SuperListUsers \/ CreateUser

SpecAdmin == Init /\ [][NextAdmin]_vars

----------------------------------------------------------------------------
(* Concurrent creations. A handler runs up to its await on the store, other
   handlers run, and it resumes: the find-by-email check and the save are
   two steps, and a request between them waits in inflight. *)

Slots == 1..MaxInflight

FreeSlot == CHOOSE s \in Slots \ DOMAIN inflight :
               \A x \in Slots \ DOMAIN inflight : s <= x

Pending(route, req) ==
    [route |-> route, email |-> req.email, password |-> req.password,
     role |-> req.role, firstName |-> req.firstName,
     department |-> req.department]

SignupCheck ==
    \E req \in SignupReqs :
       /\ DOMAIN inflight # Slots
       /\ inflight' = IF signupCheck(users, req) = "PASS"
                      THEN (FreeSlot :> Pending("signup", req)) @@ inflight
                      ELSE inflight
       /\ UNCHANGED <<users, nextId, now, tokens, failStreak, qrcodes, clientVars>>

SignupSave ==
    \E s \in DOMAIN inflight, salt \in Salts :
       /\ inflight[s].route = "signup"
       /\ LET r == signupSave(users, now, nextId, salt, inflight[s]) IN
          /\ nextId <= MaxRaceIds \/ r.resp.status # 201
          /\ users' = r.users
          /\ nextId' = IF r.resp.status = 201 THEN nextId + 1 ELSE nextId
          /\ tokens' \in Keep(r.resp)
          /\ failStreak' = Streak(r.users)
       /\ inflight' = Without(inflight, s)
       /\ UNCHANGED <<now, qrcodes, clientVars>>

CreateUserCheck ==
    \E hdr \in Headers, req \in CreateReqs :
       /\ DOMAIN inflight # Slots
       /\ inflight' = IF createUserCheck(users, now, hdr, req).code = "PASS"
                      THEN (FreeSlot :> Pending("create", req)) @@ inflight
                      ELSE inflight
       /\ UNCHANGED <<users, nextId, now, tokens, failStreak, qrcodes, clientVars>>

CreateUserSave ==
    \E s \in DOMAIN inflight, salt \in Salts :
       /\ inflight[s].route = "create"
       /\ LET r == createUserSave(users, nextId, salt, inflight[s]) IN
          /\ nextId <= MaxRaceIds \/ r.resp.status # 201
          /\ users' = r.users
          /\ nextId' = IF r.resp.status = 201 THEN nextId + 1 ELSE nextId
          /\ failStreak' = Streak(r.users)
       /\ inflight' = Without(inflight, s)
       /\ UNCHANGED <<now, tokens, qrcodes, clientVars>>

NextRace ==
    \/ SignupCheck \/ SignupSave
    \/ CreateUserCheck \/ CreateUserSave
    \/ DeleteProfile

SpecRace == Init /\ [][NextRace]_vars

----------------------------------------------------------------------------
(* Concurrent sign-ins on one account, with the password it registered and
   with another one *)

LockoutSignupReqs ==
    [email : {"a@x.io"}, password : {"Abcdef1"}, role : {Undefined},
     uniqueCode : {Undefined}, firstName : {"Ann"}, department : {Undefined}]

SignupOne == SignupOf(LockoutSignupReqs, Salts)

LockoutSigninReqs ==
    [email : {"a@x.io"}, password : Passwords, uniqueCode : {Undefined}]

SigninRead ==
    \E req \in LockoutSigninReqs :
       /\ DOMAIN inflight # Slots
       /\ LET c == signinRead(users, now, req) IN
          inflight' = IF c.code = "PASS"
                      THEN (FreeSlot :> [route |-> "signin", req |-> req,
                                         id |-> c.id, local |-> users[c.id]])
                           @@ inflight
                      ELSE inflight
       /\ UNCHANGED <<users, nextId, now, tokens, failStreak, qrcodes,
                      clientVars>>

SigninWrite ==
    \E s \in DOMAIN inflight :
       /\ inflight[s].route = "signin"
       /\ LET id == inflight[s].id
              r == signinWrite(users, now, id, inflight[s].local,
                               inflight[s].req)
          IN /\ r.users[id].loginAttempts <= MaxAttempts
             /\ r.resp.status = 200 \/ failStreak[id] < MaxStreak
             /\ users' = r.users
             /\ tokens' \in Keep(r.resp)
             /\ failStreak' = [failStreak EXCEPT ![id] =
                                  IF r.resp.status = 200 THEN 0 ELSE @ + 1]
       /\ inflight' = Without(inflight, s)
       /\ UNCHANGED <<nextId, now, qrcodes, clientVars>>

NextLockout == SignupOne \/ SigninRead \/ SigninWrite \/ Tick

SpecLockout == Init /\ [][NextLockout]_vars

----------------------------------------------------------------------------
(* An administrator's delete beside the requests that change roles: a user,
   an admin and a superadmin register, the delete runs up to its removal,
   other requests run, and it resumes *)

StaffSignupReqs ==
    {[email |-> x[1], password |-> "Abcdef1", role |-> x[2],
      uniqueCode |-> IF x[2] = "user" THEN Undefined ELSE SharedCode,
      firstName |-> "Ann", department |-> Undefined] :
        x \in {<<"a@x.io", "user">>, <<"b@x.io", "admin">>,
                <<"c@x.io", "superadmin">>}}

StaffIds == 1..MaxRaceIds

SignupStaff == SignupWithin(StaffSignupReqs, Salts, MaxRaceIds)

AdminPutStaff ==
    \E hdr \in Headers, tid \in StaffIds, req \in AdminPutReqs :
       LET r == adminPutUser(users, now, hdr, tid, req) IN
       /\ users' = r.users
       /\ UNCHANGED <<nextId, now, tokens, failStreak, inflight, qrcodes,
                      clientVars>>

AdminDeleteCheck ==
    \E hdr \in Headers, tid \in StaffIds :
       /\ DOMAIN inflight # Slots
       /\ LET c == adminDeleteCheck(users, now, hdr, tid) IN
          inflight' = IF c.code = "PASS"
                      THEN (FreeSlot :> [route |-> "adminDelete", tid |-> tid,
                                         callerRole |-> c.callerRole])
                           @@ inflight
                      ELSE inflight
       /\ UNCHANGED <<users, nextId, now, tokens, failStreak, qrcodes,
                      clientVars>>

AdminDeleteRemove ==
    \E s \in DOMAIN inflight :
       /\ inflight[s].route = "adminDelete"
       /\ LET r == adminDeleteRemove(users, inflight[s].tid) IN
          /\ users' = r.users
          /\ failStreak' = Streak(r.users)
       /\ inflight' = Without(inflight, s)
       /\ UNCHANGED <<nextId, now, tokens, qrcodes, clientVars>>

NextDelete ==
    \/ SignupStaff \/ AdminPutStaff
    \/ AdminDeleteCheck \/ AdminDeleteRemove

SpecDelete == Init /\ [][NextDelete]_vars

----------------------------------------------------------------------------
(* Notions the properties share *)

(* A sign-in request addressed to the account with this email *)
SigninsFor(email) ==
    {req \in SigninReqs : normalizeEmail(req.email) = email /\ req.password # ""}

(* The request's verification code passes the request validation for this
   account: the account is not privileged, or the code is absent or right *)
CodeAccepted(user, req) ==
    \/ user.role \notin Privileged
    \/ req.uniqueCode = Undefined
    \/ req.uniqueCode = SharedCode

LockedOut(i) ==
    /\ failStreak[i] >= LockThreshold
    /\ users[i].lockUntil # <<>> /\ users[i].lockUntil[1] > now

LockElapsed(i) ==
    /\ failStreak[i] >= LockThreshold
    /\ users[i].lockUntil # <<>> /\ users[i].lockUntil[1] <= now

RejectedAsLocked(r) ==
    /\ r.resp.status = 423 /\ r.resp.code = "ACCOUNT_LOCKED"
    /\ r.resp.token = <<>>

SignedInAndReset(r, i) ==
    /\ r.resp.status = 200 /\ r.resp.token # <<>>
    /\ r.users[i].loginAttempts = 0 /\ r.users[i].lockUntil = <<>>

----------------------------------------------------------------------------
(* C1, as stated. Lockout threshold: after 5 consecutive wrong-password
   sign-ins on an account its lockUntil is set; while lockUntil is in the
   future every sign-in for the account, the right password included, is
   answered 423 ACCOUNT_LOCKED; once the window has elapsed a sign-in with
   the right password on the (active) account succeeds and leaves
   loginAttempts = 0 and lockUntil cleared. *)
C1_LockoutAnyRequest ==
    \A i \in DOMAIN users :
       /\ failStreak[i] >= LockThreshold => users[i].lockUntil # <<>>
       /\ \A req \in SigninsFor(users[i].email) :
             LET r == signin(users, now, req) IN
             /\ LockedOut(i) => RejectedAsLocked(r)
             /\ LockElapsed(i) /\ users[i].isActive
                   /\ comparePassword(users[i], req.password)
                => SignedInAndReset(r, i)

(* C1, amended. The same, for the sign-ins whose verification code passes
   the request validation: a sign-in on a privileged account that carries a
   wrong code is answered 400 before the lock is looked at. The lock lasts
   at most LockDuration from now. *)
C1_LockoutThreshold ==
    \A i \in DOMAIN users :
       /\ failStreak[i] >= LockThreshold =>
             /\ users[i].lockUntil # <<>>
             /\ users[i].lockUntil[1] <= now + LockDuration
       /\ \A req \in SigninsFor(users[i].email) :
             LET r == signin(users, now, req) IN
             /\ LockedOut(i) /\ CodeAccepted(users[i], req)
                => RejectedAsLocked(r) /\ r.users = users
             /\ LockedOut(i) /\ ~CodeAccepted(users[i], req)
                => r.resp.status = 400 /\ r.resp.token = <<>>
             /\ LockElapsed(i) /\ users[i].isActive
                   /\ CodeAccepted(users[i], req)
                   /\ comparePassword(users[i], req.password)
                => SignedInAndReset(r, i)

(* C1, witness: an active account is locked out after 5 failures in a row
   and a sign-in with its password is turned down as locked *)
C1_Witness ==
    \E i \in DOMAIN users :
       /\ LockedOut(i) /\ users[i].isActive
       /\ \E req \in SigninsFor(users[i].email) :
             /\ comparePassword(users[i], req.password)
             /\ signin(users, now, req).resp.code = "ACCOUNT_LOCKED"

(* C1, second case reached: the window has elapsed and the sign-in succeeds *)
C1_WitnessElapsed ==
    \E i \in DOMAIN users :
       /\ LockElapsed(i) /\ users[i].isActive
       /\ \E req \in SigninsFor(users[i].email) :
             signin(users, now, req).resp.status = 200

----------------------------------------------------------------------------
(* Callers and management requests *)

(* The account the gate resolves the header to; 0 when the gate rejects *)
CallerOf(hdr) == authenticateToken(users, now, hdr).userId

CallersWithRole(roles) ==
    {hdr \in Headers : CallerOf(hdr) # 0 /\ users[CallerOf(hdr)].role \in roles}

Denied(r) ==
    /\ r.resp.status = 403 /\ r.resp.code = "ACCESS_DENIED"
    /\ r.resp.user = <<>>
    /\ r.users = users

(* The outcomes of every request that passes through the gate, made with
   this header on the store U at time t *)
RequestResults(U, t, hdr) ==
    {me(U, t, hdr), deleteProfile(U, t, hdr), logout(U, t, hdr),
     refresh(U, t, hdr)}
    \cup {updateProfile(U, t, hdr, req) : req \in ProfileReqs}
    \cup {changePassword(U, t, hdr, x[1], x[2]) :
             x \in Salts \X ChangePasswordReqs}
    \cup {adminGetUser(U, t, hdr, tid) : tid \in Ids}
    \cup {getUser(U, t, hdr, tid) : tid \in Ids}
    \cup {adminPutUser(U, t, hdr, x[1], x[2]) : x \in Ids \X AdminPutReqs}
    \cup {adminDeleteUser(U, t, hdr, tid) : tid \in Ids}
    \cup {setActive(U, t, hdr, x[1], x[2]) : x \in Ids \X BOOLEAN}
    \cup {createUser(U, t, hdr, nextId, x[1], x[2]) : x \in Salts \X CreateReqs}

(* The same, in this state *)
ManagementResults(hdr) == RequestResults(users, now, hdr)

----------------------------------------------------------------------------
(* C2. Tier isolation: a read (GET /admin/users/:id, GET /users/:id), an
   update (PUT /admin/users/:id) or a delete (DELETE /admin/users/:id) by an
   admin caller on another account whose role is admin or superadmin is
   answered 403 ACCESS_DENIED, and the target is neither returned nor
   changed nor removed. *)
C2_TierIsolation ==
    \A hdr \in CallersWithRole({"admin"}) :
       \A tid \in DOMAIN users \ {CallerOf(hdr)} :
          users[tid].role \in Privileged =>
             /\ Denied(adminGetUser(users, now, hdr, tid))
             /\ Denied(getUser(users, now, hdr, tid))
             /\ \A req \in AdminPutReqs :
                   req.role # "superadmin" =>
                      Denied(adminPutUser(users, now, hdr, tid, req))
             /\ Denied(adminDeleteUser(users, now, hdr, tid))

----------------------------------------------------------------------------
(* C3. Role monotonicity: no management request of a caller who is not a
   superadmin leaves an account with the role admin or superadmin that did
   not have that role before; a PUT /admin/users/:id with role = admin by an
   admin caller on an existing account is answered 403 and changes nothing;
   a superadmin caller can raise a role. *)
C3_RoleMonotonicity ==
    /\ \A hdr \in Headers :
          (CallerOf(hdr) = 0 \/ users[CallerOf(hdr)].role # "superadmin") =>
             \A r \in ManagementResults(hdr) :
                \A i \in DOMAIN r.users :
                   r.users[i].role \in Privileged =>
                      i \in DOMAIN users /\ users[i].role = r.users[i].role
    /\ \A hdr \in CallersWithRole({"admin"}) :
          \A tid \in DOMAIN users, req \in AdminPutReqs :
             req.role = "admin" =>
                LET r == adminPutUser(users, now, hdr, tid, req) IN
                r.resp.status = 403 /\ r.users = users
    /\ \A hdr \in CallersWithRole({"superadmin"}) :
          \A tid \in DOMAIN users :
             LET r == adminPutUser(users, now, hdr, tid,
                                   [role |-> "admin", isActive |-> Undefined,
                                    firstName |-> Undefined,
                                    department |-> Undefined])
             IN r.resp.status = 200 /\ r.users[tid].role = "admin"

(* C3, witness: an admin caller asks to make a user-tier account an admin
   and is turned down *)
C3_Witness ==
    \E hdr \in CallersWithRole({"admin"}) :
       \E tid \in DOMAIN users :
          /\ users[tid].role = "user"
          /\ adminPutUser(users, now, hdr, tid,
                          [role |-> "admin", isActive |-> Undefined,
                                    firstName |-> Undefined,
                                    department |-> Undefined]).resp.code
                = "ACCESS_DENIED"

----------------------------------------------------------------------------
(* C4. Activation scope: an activate or deactivate request by an admin
   caller on another account whose role is admin or superadmin is rejected
   and leaves the target's isActive unchanged. *)
C4_ActivationScope ==
    \A hdr \in CallersWithRole({"admin"}) :
       \A tid \in DOMAIN users \ {CallerOf(hdr)} :
          users[tid].role \in Privileged =>
             \A active \in BOOLEAN :
                LET r == setActive(users, now, hdr, tid, active) IN
                /\ r.resp.status # 200
                /\ r.users[tid].isActive = users[tid].isActive

----------------------------------------------------------------------------
(* C5. Privileged sign-in code: a sign-in for an account whose role is admin
   or superadmin issues a token only if the request's verification code is
   the shared code; when the code is absent or different the sign-in fails,
   issues no token and does not reach the password check (the lockout
   counter is untouched). *)
C5_PrivilegedSigninCode ==
    \A i \in DOMAIN users :
       users[i].role \in Privileged =>
          \A req \in SigninsFor(users[i].email) :
             LET r == signin(users, now, req) IN
             /\ r.resp.token # <<>> => req.uniqueCode = SharedCode
             /\ req.uniqueCode # SharedCode =>
                   /\ r.resp.status # 200 /\ r.resp.token = <<>>
                   /\ r.users = users

----------------------------------------------------------------------------
(* C6. Privileged registration code: a sign-up that asks for the role admin
   or superadmin creates an account only if its unique code is the shared
   code; with a missing or different code it is rejected and the store is
   unchanged. *)
C6_PrivilegedSignupCode ==
    \A req \in SignupReqs, salt \in Salts :
       req.role \in Privileged /\ req.uniqueCode # SharedCode =>
          LET r == signup(users, now, nextId, salt, req) IN
          /\ r.resp.status # 201 /\ r.resp.token = <<>>
          /\ r.users = users

----------------------------------------------------------------------------
(* No sign-in issues a token for an inactive account *)
NoTokenForInactive ==
    \A i \in DOMAIN users :
       ~users[i].isActive =>
          \A req \in SigninReqs :
             normalizeEmail(req.email) = users[i].email =>
                signin(users, now, req).resp.token = <<>>

RejectedAsDeactivated(r) ==
    /\ r.resp.status = 401 /\ r.resp.code = "ACCOUNT_DEACTIVATED"
    /\ r.resp.token = <<>>

(* C7, as stated. Deactivated blocks login: a sign-in with the right
   password on an account that is inactive and not locked is answered 401
   ACCOUNT_DEACTIVATED without a token; no sign-in issues a token for an
   inactive account. *)
C7_DeactivatedAnyRequest ==
    /\ NoTokenForInactive
    /\ \A i \in DOMAIN users :
          ~users[i].isActive /\ ~isLocked(users[i], now) =>
             \A req \in SigninsFor(users[i].email) :
                comparePassword(users[i], req.password) =>
                   RejectedAsDeactivated(signin(users, now, req))

(* C7, amended. The same, for the sign-ins whose verification code passes
   the request validation; a sign-in on an inactive privileged account that
   carries a wrong code is answered 400, without a token. *)
C7_DeactivatedBlocksLogin ==
    /\ NoTokenForInactive
    /\ \A i \in DOMAIN users :
          ~users[i].isActive /\ ~isLocked(users[i], now) =>
             \A req \in SigninsFor(users[i].email) :
                LET r == signin(users, now, req) IN
                /\ comparePassword(users[i], req.password)
                      /\ CodeAccepted(users[i], req)
                   => RejectedAsDeactivated(r) /\ r.users = users
                /\ ~CodeAccepted(users[i], req)
                   => r.resp.status = 400 /\ r.resp.token = <<>>

(* C7, witness: a deactivated, unlocked account signs in with its password
   and is turned down as deactivated *)
C7_Witness ==
    \E i \in DOMAIN users :
       /\ ~users[i].isActive /\ ~isLocked(users[i], now)
       /\ \E req \in SigninsFor(users[i].email) :
             /\ comparePassword(users[i], req.password)
             /\ signin(users, now, req).resp.code = "ACCOUNT_DEACTIVATED"

----------------------------------------------------------------------------
(* The answers of a failed sign-in in this store and in the store that
   differs only in not having account i *)
SameAnswerWithout(i, req) ==
    LET with == signin(users, now, req).resp
        without == signin(removeUser(users, i), now, req).resp
    IN with.status = without.status /\ with.code = without.code

FailsHere(req) == signin(users, now, req).resp.status # 200

(* C8, as stated. No existence leak at sign-in: a failed sign-in for the
   email of an account gets the same status and code as it gets in the
   store without that account, whatever the state of the account. *)
C8_NoLeakAnyState ==
    \A i \in DOMAIN users :
       \A req \in SigninsFor(users[i].email) :
          FailsHere(req) => SameAnswerWithout(i, req)

(* C8, amended. The answers are the same (401 INVALID_CREDENTIALS) when the
   account is active, not locked, and the request's verification code
   passes the validation; a locked account, a deactivated account and a
   privileged account given a wrong code answer differently from the store
   without the account (423 ACCOUNT_LOCKED, 401 ACCOUNT_DEACTIVATED, 400). *)
C8_NoExistenceLeak ==
    \A i \in DOMAIN users :
       \A req \in SigninsFor(users[i].email) :
          FailsHere(req) =>
             LET quiet == /\ users[i].isActive /\ ~isLocked(users[i], now)
                          /\ CodeAccepted(users[i], req)
                 r == signin(users, now, req).resp
             IN /\ quiet => /\ SameAnswerWithout(i, req)
                            /\ r.status = 401 /\ r.code = "INVALID_CREDENTIALS"
                /\ ~quiet => /\ ~SameAnswerWithout(i, req)
                             /\ r.code \in {"ACCOUNT_LOCKED",
                                            "ACCOUNT_DEACTIVATED",
                                            "VALIDATION_FAILED"}

(* C8, witness: a wrong password on an active, unlocked account is answered
   as the unknown email is *)
C8_Witness ==
    \E i \in DOMAIN users :
       /\ users[i].isActive /\ ~isLocked(users[i], now)
       /\ \E req \in SigninsFor(users[i].email) :
             /\ ~comparePassword(users[i], req.password)
             /\ CodeAccepted(users[i], req)
             /\ signin(users, now, req).resp.code = "INVALID_CREDENTIALS"
             /\ SameAnswerWithout(i, req)

----------------------------------------------------------------------------
(* Every header a request can carry at this moment: none, and for every id
   and every past instant a token issued then, signed by the server or by
   somebody else *)
AnyHeaders ==
    Headers
    \cup {<<generateToken(i, t)>> : i \in Ids, t \in {x \in Times : x <= now}}
    \cup {<<[generateToken(i, t) EXCEPT !.sig = "forged"]>> :
             i \in Ids, t \in {x \in Times : x <= now}}

(* What the gate is to answer, check by check *)
GateAnswer(hdr) ==
    IF hdr = <<>> THEN "NO_TOKEN"
    ELSE IF hdr[1].sig # JwtSecret THEN "INVALID_TOKEN"
    ELSE IF ~(now < hdr[1].exp) THEN "TOKEN_EXPIRED"
    ELSE IF hdr[1].userId \notin DOMAIN users THEN "INVALID_TOKEN"
    ELSE IF ~users[hdr[1].userId].isActive THEN "ACCOUNT_DEACTIVATED"
    ELSE "OK"

(* C9. Authentication gate: a request reaches a protected handler iff its
   token is present, signed by the server, not expired, and of an account
   that exists and is active; otherwise the gate answers 401 with the code
   of the first check that fails, in the order NO_TOKEN, INVALID_TOKEN
   (signature), TOKEN_EXPIRED, INVALID_TOKEN (account absent),
   ACCOUNT_DEACTIVATED, and the handler does not run: the route answers
   with the gate's code, returns no account and changes nothing. *)
C9_AuthenticationGate ==
    /\ \A hdr \in AnyHeaders :
          LET g == authenticateToken(users, now, hdr) IN
          /\ g.ok <=> /\ hdr # <<>> /\ hdr[1].sig = JwtSecret
                      /\ now < hdr[1].exp
                      /\ hdr[1].userId \in DOMAIN users
                      /\ users[hdr[1].userId].isActive
          /\ g.code = GateAnswer(hdr)
          /\ ~g.ok => g.status = 401
          /\ LET r == me(users, now, hdr) IN
             IF g.ok THEN r.resp.status = 200 /\ r.resp.user # <<>>
             ELSE r.resp.status = 401 /\ r.resp.code = g.code
                  /\ r.resp.user = <<>>
    /\ \A hdr \in Headers :
          ~authenticateToken(users, now, hdr).ok =>
             \A r \in ManagementResults(hdr) :
                /\ r.users = users
                /\ r.resp.status = 401 /\ r.resp.code = GateAnswer(hdr)
                /\ r.resp.user = <<>> /\ r.resp.token = <<>>

(* C9, witness: a client presents the unexpired token of an account that was
   deactivated since, and the gate turns it down *)
C9_Witness ==
    \E k \in tokens :
       /\ k.userId \in DOMAIN users /\ ~users[k.userId].isActive
       /\ now < k.exp
       /\ me(users, now, <<k>>).resp.code = "ACCOUNT_DEACTIVATED"

(* C9, also reached: the token of an account that was deleted since *)
C9_WitnessOrphan ==
    \E k \in tokens :
       /\ k.userId \notin DOMAIN users /\ now < k.exp
       /\ me(users, now, <<k>>).resp.code = "INVALID_TOKEN"

----------------------------------------------------------------------------
(* C10. Token expiry: a token issued at time T for an account that exists
   and is active is accepted by the gate at every time before
   T + TokenLifetime and turned down with TOKEN_EXPIRED at every time after
   T + TokenLifetime. *)
C10_TokenExpiry ==
    \A k \in tokens :
       /\ k.iat <= now
       /\ k.userId \in DOMAIN users /\ users[k.userId].isActive =>
             LET g == authenticateToken(users, now, <<k>>) IN
             /\ now < k.iat + TokenLifetime =>
                   g.ok /\ me(users, now, <<k>>).resp.status = 200
             /\ now > k.iat + TokenLifetime =>
                   /\ ~g.ok /\ g.code = "TOKEN_EXPIRED"
                   /\ me(users, now, <<k>>).resp.code = "TOKEN_EXPIRED"

(* C10, witness: a kept token of an active account is presented more than
   TokenLifetime after its issue and is turned down as expired *)
C10_Witness ==
    \E k \in tokens :
       /\ k.userId \in DOMAIN users /\ users[k.userId].isActive
       /\ now > k.iat + TokenLifetime
       /\ me(users, now, <<k>>).resp.code = "TOKEN_EXPIRED"

(* C10, also reached: a token accepted in the last hour of its life *)
C10_WitnessLate ==
    \E k \in tokens :
       /\ now = k.iat + TokenLifetime - 1
       /\ me(users, now, <<k>>).resp.status = 200

----------------------------------------------------------------------------
(* The instants from now on at which a token is still within its life *)
LifeOf(k) == {t \in Times : now <= t /\ t < k.exp}

Accepted(U, t, k) == authenticateToken(U, t, <<k>>).ok

(* Every token a request can carry at this moment *)
AnyTokens == {hdr[1] : hdr \in AnyHeaders \ {<<>>}}

(* C11. No revocation: a logout or a change of password, by any caller,
   leaves every token the gate accepted before it accepted after it, at
   every later instant before the token's own expiry; a logout leaves the
   store as it was. *)
C11_NoRevocation ==
    \A hdr \in Headers :
       /\ logout(users, now, hdr).users = users
       /\ \A k \in AnyTokens :
             Accepted(users, now, k) =>
                \A r \in {logout(users, now, hdr)}
                          \cup {changePassword(users, now, hdr, x[1], x[2]) :
                                   x \in Salts \X ChangePasswordReqs} :
                   \A t \in LifeOf(k) : Accepted(r.users, t, k)

(* C11, witness: an account has changed its password and the token it was
   given before is still accepted *)
C11_Witness ==
    \E k \in tokens :
       /\ Accepted(users, now, k)
       /\ users[k.userId].email = "b@x.io"
       /\ comparePassword(users[k.userId], "Xyz789a")
       /\ logout(users, now, <<k>>).resp.code = "LOGOUT_SUCCESS"

----------------------------------------------------------------------------
(* C12. Refresh: a refresh by a caller the gate accepts returns a token of
   the caller's account, signed by the server, that expires TokenLifetime
   after the refresh, and changes no account; the presented token is
   accepted as before until its own expiry. A refresh the gate turns down
   returns no token. *)
C12_Refresh ==
    \A hdr \in Headers :
       LET r == refresh(users, now, hdr) IN
       /\ r.users = users
       /\ IF authenticateToken(users, now, hdr).ok
          THEN /\ r.resp.status = 200 /\ r.resp.token # <<>>
               /\ r.resp.token[1].userId = hdr[1].userId
               /\ r.resp.token[1].sig = JwtSecret
               /\ r.resp.token[1].exp = now + TokenLifetime
               /\ \A t \in LifeOf(hdr[1]) : Accepted(r.users, t, hdr[1])
               /\ \A t \in LifeOf(r.resp.token[1]) :
                     Accepted(r.users, t, r.resp.token[1])
          ELSE r.resp.token = <<>> /\ r.resp.status = 401

(* C12, witness: a token is refreshed some time after its issue, and the
   new token outlives it *)
C12_Witness ==
    \E k \in tokens :
       /\ k.iat < now
       /\ refresh(users, now, <<k>>).resp.status = 200
       /\ refresh(users, now, <<k>>).resp.token[1].exp > k.exp

----------------------------------------------------------------------------
(* A token whose signature and expiry are good and whose account is gone *)
Orphaned(U, t, k) ==
    /\ k.sig = JwtSecret /\ t < k.exp
    /\ k.userId \notin DOMAIN U

TurnedDownAsInvalid(U, r) ==
    /\ r.resp.status = 401 /\ r.resp.code = "INVALID_TOKEN"
    /\ r.resp.user = <<>> /\ r.resp.token = <<>>
    /\ r.users = U

(* C13. Self-delete orphans the token: a DELETE /users/profile the gate
   accepts is answered 200 and removes the caller's account and no other;
   every request that presents a token of a removed account, at any instant
   within the token's life, is answered 401 INVALID_TOKEN and changes
   nothing. *)
C13_SelfDeleteOrphansToken ==
    /\ \A hdr \in Headers :
          authenticateToken(users, now, hdr).ok =>
             LET r == deleteProfile(users, now, hdr) IN
             /\ r.resp.status = 200
             /\ DOMAIN r.users = DOMAIN users \ {hdr[1].userId}
             /\ \A i \in DOMAIN r.users : r.users[i] = users[i]
             /\ \A t \in LifeOf(hdr[1]) :
                   \A q \in RequestResults(r.users, t, hdr) :
                      TurnedDownAsInvalid(r.users, q)
    /\ \A k \in tokens :
          Orphaned(users, now, k) =>
             \A q \in ManagementResults(<<k>>) : TurnedDownAsInvalid(users, q)

(* C13, witness: a client holds the unexpired token of the account it has
   deleted, and GET /auth/me with it is turned down *)
C13_Witness ==
    \E k \in tokens :
       /\ Orphaned(users, now, k) /\ k.userId < nextId
       /\ me(users, now, <<k>>).resp.code = "INVALID_TOKEN"

----------------------------------------------------------------------------
(* The save of the creation waiting in slot s, on the store U with id as
   the next _id *)
SaveOf(U, id, s, salt) ==
    IF inflight[s].route = "signup"
    THEN signupSave(U, now, id, salt, inflight[s])
    ELSE createUserSave(U, id, salt, inflight[s])

Created(r) == r.resp.status = 201

LostTheRace(U, r) ==
    /\ r.resp.status = 400 /\ r.resp.code = "EMAIL_EXISTS"
    /\ r.resp.token = <<>> /\ r.resp.user = <<>>
    /\ r.users = U

SameEmail(s1, s2) ==
    normalizeEmail(inflight[s1].email) = normalizeEmail(inflight[s2].email)

UniqueEmails(U) ==
    \A i, j \in DOMAIN U : U[i].email = U[j].email => i = j

(* C14. Email uniqueness: no two accounts have the same normalized email;
   of two creations (sign-up or superadmin create) for the same email that
   have both passed the find-by-email check, the first to save creates the
   account and the second is answered 400 EMAIL_EXISTS and creates nothing;
   a creation whose email was taken while it waited is answered 400
   EMAIL_EXISTS. *)
C14_EmailUniqueness ==
    /\ UniqueEmails(users)
    /\ \A s1 \in DOMAIN inflight, salt \in Salts :
          LET r1 == SaveOf(users, nextId, s1, salt) IN
          /\ UniqueEmails(r1.users)
          /\ Created(r1) \/ LostTheRace(users, r1)
          /\ Created(r1) <=>
                findByEmail(users, normalizeEmail(inflight[s1].email)) = {}
          /\ \A s2 \in DOMAIN inflight \ {s1} :
                SameEmail(s1, s2) =>
                   LET id2 == IF Created(r1) THEN nextId + 1 ELSE nextId
                       r2 == SaveOf(r1.users, id2, s2, salt)
                   IN /\ LostTheRace(r1.users, r2)
                      /\ UniqueEmails(r2.users)

(* C14, witness: a sign-up and a superadmin create for the same email have
   both passed the find-by-email check and neither has saved yet *)
C14_Witness ==
    \E s1, s2 \in DOMAIN inflight :
       /\ inflight[s1].route = "signup" /\ inflight[s2].route = "create"
       /\ SameEmail(s1, s2)
       /\ findByEmail(users, normalizeEmail(inflight[s1].email)) = {}

(* C14, also reached: one of the two has saved, the other still waits *)
C14_WitnessLoser ==
    \E s \in DOMAIN inflight :
       findByEmail(users, normalizeEmail(inflight[s].email)) # {}

----------------------------------------------------------------------------
(* C15. canAccessUser decision: for a caller the gate accepts and an
   existing target, the check passes iff the caller is a superadmin, or the
   caller is an admin and the target is a user-tier account or the caller's
   own account, or the caller is a user and the target is the caller's own
   account; in every other case it answers ACCESS_DENIED. *)
C15_CanAccessUser ==
    \A hdr \in Headers :
       authenticateToken(users, now, hdr).ok =>
          \A tid \in DOMAIN users :
             LET c == CallerOf(hdr)
                 role == users[c].role
                 pass == \/ role = "superadmin"
                         \/ role = "admin"
                               /\ (users[tid].role = "user" \/ tid = c)
                         \/ role = "user" /\ tid = c
                 answer == canAccessUser(users, c, tid)
             IN /\ answer = "PASS" <=> pass
                /\ ~pass => answer = "ACCESS_DENIED"
                /\ pass => getUser(users, now, hdr, tid).resp.status = 200

----------------------------------------------------------------------------
(* The outcomes of every /admin request on the accounts and of every
   /superadmin request a caller can make in this state *)
AdminRouteResults(hdr) ==
    {dashboard(users, now, hdr)}
    \cup {adminListUsers(users, now, hdr, q) : q \in ListQueries}
    \cup {adminGetUser(users, now, hdr, tid) : tid \in Ids}
    \cup {adminPutUser(users, now, hdr, x[1], x[2]) : x \in Ids \X AdminPutReqs}
    \cup {adminDeleteUser(users, now, hdr, tid) : tid \in Ids}
    \cup {setActive(users, now, hdr, x[1], x[2]) : x \in Ids \X BOOLEAN}

SuperRouteResults(hdr) ==
    {superListUsers(users, now, hdr, q) : q \in ListQueries}
    \cup {createUser(users, now, hdr, nextId, x[1], x[2]) :
             x \in Salts \X CreateReqs}

QrResults(hdr) ==
    {postQrcodes(users, qrcodes, now, hdr, batch) : batch \in CodeBatches}

Forbidden(r) ==
    /\ r.resp.status = 403
    /\ r.resp.user = <<>> /\ r.resp.token = <<>>
    /\ r.users = users

(* C16. Role gate: requireRole(roles) lets an authenticated caller through
   iff the caller's role is in roles, and answers 403
   INSUFFICIENT_PERMISSIONS otherwise; every /admin and /superadmin request
   of a user-tier caller, and every /superadmin request of an admin caller,
   is answered 403 and changes neither the accounts nor the QR codes. *)
C16_RoleGate ==
    /\ \A hdr \in Headers :
          authenticateToken(users, now, hdr).ok =>
             \A allowed \in {requireUser, requireAdmin, requireSuperAdmin} :
                LET a == Admit(users, now, hdr, allowed) IN
                /\ a.ok <=> users[CallerOf(hdr)].role \in allowed
                /\ ~a.ok => /\ a.status = 403
                            /\ a.code = "INSUFFICIENT_PERMISSIONS"
    /\ \A hdr \in CallersWithRole({"user"}) :
          /\ \A r \in AdminRouteResults(hdr) \cup SuperRouteResults(hdr) :
                Forbidden(r) /\ r.resp.code = "INSUFFICIENT_PERMISSIONS"
          /\ \A r \in QrResults(hdr) : Forbidden(r) /\ r.qrcodes = qrcodes
    /\ \A hdr \in CallersWithRole({"admin"}) :
          \A r \in SuperRouteResults(hdr) :
             Forbidden(r) /\ r.resp.code = "INSUFFICIENT_PERMISSIONS"

(* C16, witness: a user-tier caller asks to delete another account through
   the admin route and is turned down *)
C16_Witness ==
    \E hdr \in CallersWithRole({"user"}) :
       \E tid \in DOMAIN users \ {CallerOf(hdr)} :
          adminDeleteUser(users, now, hdr, tid).resp.code
             = "INSUFFICIENT_PERMISSIONS"

(* C16, also reached: an admin caller who has saved QR codes asks to create
   an account and is turned down *)
C16_WitnessAdmin ==
    \E hdr \in CallersWithRole({"admin"}) :
       /\ \E d \in qrcodes : d.createdBy = CallerOf(hdr)
       /\ \E req \in CreateReqs, salt \in Salts :
             createUser(users, now, hdr, nextId, salt, req).resp.code
                = "INSUFFICIENT_PERMISSIONS"

----------------------------------------------------------------------------
PutRole(role) ==
    [role |-> role, isActive |-> Undefined, firstName |-> Undefined,
     department |-> Undefined]

(* A superadmin caller creates accounts of every role and reads,
   deactivates and deletes accounts of every tier *)
SuperAdminManages(hdr) ==
    /\ \A req \in CreateReqs, salt \in Salts :
          findByEmail(users, normalizeEmail(req.email)) = {} =>
             LET r == createUser(users, now, hdr, nextId, salt, req) IN
             /\ r.resp.status = 201
             /\ DOMAIN r.users = DOMAIN users \cup {nextId}
             /\ r.users[nextId].role = req.role
    /\ \A tid \in DOMAIN users :
          /\ LET r == adminGetUser(users, now, hdr, tid) IN
             r.resp.status = 200 /\ r.resp.user[1].id = tid
          /\ LET r == getUser(users, now, hdr, tid) IN
             r.resp.status = 200 /\ r.resp.user[1].id = tid
          /\ LET r == setActive(users, now, hdr, tid, FALSE) IN
             r.resp.status = 200 /\ ~r.users[tid].isActive
          /\ LET r == adminDeleteUser(users, now, hdr, tid) IN
             r.resp.status = 200 /\ tid \notin DOMAIN r.users

(* The roles a superadmin caller can give an account through PUT *)
SuperAdminSets(hdr, roles) ==
    \A tid \in DOMAIN users, role \in roles :
       LET r == adminPutUser(users, now, hdr, tid, PutRole(role)) IN
       r.resp.status = 200 /\ r.users[tid].role = role

(* C17, as stated. Super-admin scope: a superadmin caller creates accounts
   of each of the three roles through POST /superadmin/users, reads,
   updates, deactivates and deletes accounts of every tier, and sets an
   account's role to any of the three roles. *)
C17_AnyRoleByUpdate ==
    \A hdr \in CallersWithRole({"superadmin"}) :
       SuperAdminManages(hdr) /\ SuperAdminSets(hdr, Roles)

(* C17, amended. The same, except that an update sets the role to user or
   admin only: PUT /admin/users/:id with role = superadmin is answered 400
   and changes nothing, for a superadmin caller too; an account gets the
   role superadmin at its creation. *)
C17_SuperAdminScope ==
    \A hdr \in CallersWithRole({"superadmin"}) :
       /\ SuperAdminManages(hdr)
       /\ SuperAdminSets(hdr, {"user", "admin"})
       /\ \A tid \in Ids :
             LET r == adminPutUser(users, now, hdr, tid, PutRole("superadmin"))
             IN r.resp.status = 400 /\ r.users = users

(* C17, witness: a superadmin caller demotes another superadmin account *)
C17_Witness ==
    \E hdr \in CallersWithRole({"superadmin"}) :
       \E tid \in DOMAIN users \ {CallerOf(hdr)} :
          /\ users[tid].role = "superadmin"
          /\ LET r == adminPutUser(users, now, hdr, tid, PutRole("user")) IN
             r.resp.status = 200 /\ r.users[tid].role = "user"

----------------------------------------------------------------------------
(* C19. Admin listing scope: whatever the query, the list GET /admin/users
   answers to an admin caller holds user-tier accounts only; here, even
   leaving the caller's own document aside, it holds no document of an
   admin or superadmin account. *)
C19_AdminListingScope ==
    \A hdr \in CallersWithRole({"admin"}) :
       \A q \in ListQueries :
          LET r == adminListUsers(users, now, hdr, q) IN
          \A k \in DOMAIN r.resp.user :
             r.resp.user[k].id # CallerOf(hdr) => r.resp.user[k].role = "user"

----------------------------------------------------------------------------
(* The fields of a document that PUT /users/profile is not to write *)
GuardedFields(user) ==
    <<user.role, user.isActive, user.email, user.password,
      user.loginAttempts, user.lockUntil>>

(* C18. No self-elevation through the update path: PUT /users/profile
   writes at most the profile fields of the caller's own document; the
   caller's role, isActive, email, password, loginAttempts and lockUntil,
   and every other document, are as before, whatever the body asks for;
   no document is added or removed. *)
C18_ProfileUpdateFrame ==
    \A hdr \in Headers, req \in ProfileReqs :
       LET r == updateProfile(users, now, hdr, req)
           c == CallerOf(hdr)
       IN /\ DOMAIN r.users = DOMAIN users
          /\ \A i \in DOMAIN users :
                /\ GuardedFields(r.users[i]) = GuardedFields(users[i])
                /\ i # c => r.users[i] = users[i]
          /\ r.resp.token = <<>>
          /\ r.resp.status = 200 => r.resp.user[1].role = users[c].role

(* C18, witness: an account that has renamed itself asks, in the body of a
   profile update that changes its department, for the role superadmin, is
   answered 200, and is a user as before *)
C18_Witness ==
    \E hdr \in CallersWithRole({"user"}) :
       LET c == CallerOf(hdr)
           r == updateProfile(users, now, hdr,
                              [firstName |-> Undefined, department |-> "R&D",
                               role |-> "superadmin"])
       IN /\ users[c].firstName = "Bob" /\ users[c].department = Undefined
          /\ r.resp.status = 200
          /\ r.users[c].department = "R&D" /\ r.users[c].role = "user"

----------------------------------------------------------------------------
(* The sign-in with the credentials of a sign-up *)
SigninAfter(req) ==
    [email |-> req.email, password |-> req.password,
     uniqueCode |-> req.uniqueCode]

(* A successful sign-up adds exactly one account, with the role asked for
   or user, and returns a token of that account *)
RegistersOne(req, r) ==
    /\ nextId \notin DOMAIN users
    /\ DOMAIN r.users = DOMAIN users \cup {nextId}
    /\ \A i \in DOMAIN users : r.users[i] = users[i]
    /\ r.users[nextId].role = (IF req.role = Undefined THEN "user"
                               ELSE req.role)
    /\ r.resp.token # <<>> /\ r.resp.token[1].userId = nextId
    /\ r.resp.user[1].id = nextId

(* The sign-in of the new account at instant t succeeds for the same id *)
SignsIn(req, r, t) ==
    LET s == signin(r.users, t, SigninAfter(req)) IN
    /\ s.resp.status = 200 /\ s.resp.token # <<>>
    /\ s.resp.token[1].userId = nextId
    /\ s.resp.user[1].id = nextId

SameToken(req, r, t) ==
    signin(r.users, t, SigninAfter(req)).resp.token = r.resp.token

Later == {t \in Times : t >= now}

(* C20, as stated. Registration result: a successful sign-up creates exactly
   one account with the role asked for, or user when none is asked for, and
   returns a token of the new account; a following sign-in with the same
   email and password succeeds for the same account and returns a token
   different from the sign-up token. *)
C20_AlwaysNewToken ==
    \A req \in SignupReqs, salt \in Salts :
       LET r == signup(users, now, nextId, salt, req) IN
       r.resp.status = 201 =>
          /\ RegistersOne(req, r)
          /\ \A t \in Later : SignsIn(req, r, t) /\ ~SameToken(req, r, t)

(* C20, amended. The same, except that the token of the sign-in differs
   from the sign-up token exactly when it is issued at a later reading of
   the clock: a token is made of the account id, the issue time and the
   expiry, so a sign-in at the clock reading of the sign-up returns the
   sign-up token again. *)
C20_RegistrationResult ==
    \A req \in SignupReqs, salt \in Salts :
       LET r == signup(users, now, nextId, salt, req) IN
       r.resp.status = 201 =>
          /\ RegistersOne(req, r)
          /\ \A t \in Later :
                /\ SignsIn(req, r, t)
                /\ SameToken(req, r, t) <=> t = now

(* C20, witness: a client holds the token of a sign-up made at this reading
   of the clock, and a sign-in of the account returns that token *)
C20_Witness ==
    \E k \in tokens :
       /\ k.iat = now /\ k.userId \in DOMAIN users
       /\ failStreak[k.userId] = 0 /\ users[k.userId].loginAttempts = 0
       /\ \E req \in SigninsFor(users[k.userId].email) :
             signin(users, now, req).resp.token = <<k>>

----------------------------------------------------------------------------
(* What the responses carry *)

(* The fields no response may carry: the hashed secret and the lockout
   internals *)
SecretFields == {"password", "loginAttempts", "lockUntil"}

(* The account documents of a response body: the user of a single-account
   answer, or the users array of a listing *)
Documents(resp) == {resp.user[k] : k \in DOMAIN resp.user}

(* The responses of the routes that answer with account data, to every
   request that can be made in this state *)
AccountResponses ==
    {signup(users, now, nextId, salt, req).resp :
        req \in SignupReqs, salt \in Salts}
    \cup {signin(users, now, req).resp : req \in SigninReqs}
    \cup UNION {{me(users, now, hdr).resp,
                 updateProfile(users, now, hdr,
                               [firstName |-> " Bob ", department |-> "R&D",
                                role |-> Undefined]).resp}
                \cup {getUser(users, now, hdr, tid).resp : tid \in Ids}
                \cup {adminGetUser(users, now, hdr, tid).resp : tid \in Ids}
                \cup {adminPutUser(users, now, hdr, tid, req).resp :
                         tid \in Ids, req \in AdminPutReqs}
                \cup {setActive(users, now, hdr, tid, active).resp :
                         tid \in Ids, active \in BOOLEAN}
                \cup {adminListUsers(users, now, hdr, q).resp :
                         q \in ListQueries}
                \cup {superListUsers(users, now, hdr, q).resp :
                         q \in ListQueries}
                \cup {createUser(users, now, hdr, nextId, salt, req).resp :
                         salt \in Salts, req \in CreateReqs}
                : hdr \in Headers}

(* C21. Returned account data never carries secrets: no response of the
   routes that answer with account data (sign-up, sign-in, /auth/me, the
   profile routes, the admin and superadmin read, list, update, activate and
   deactivate routes) includes the hashed secret or the lockout internals
   (loginAttempts, lockUntil), except the unlock time reported by an
   ACCOUNT_LOCKED sign-in failure. *)
C21_NoSecretsInResponses ==
    \A resp \in AccountResponses :
       /\ \A d \in Documents(resp) : DOMAIN d \cap SecretFields = {}
       /\ resp.lockUntil # <<>> => resp.code = "ACCOUNT_LOCKED"

----------------------------------------------------------------------------
(* Changing the password *)

(* Role, isActive and every other account are as before *)
ChangeFrame(U, U2, i) ==
    /\ DOMAIN U2 = DOMAIN U
    /\ U2[i].role = U[i].role /\ U2[i].isActive = U[i].isActive
    /\ \A j \in DOMAIN U \ {i} : U2[j] = U[j]

(* C22, as stated. Change password: with a currentPassword that does not
   verify against the caller's stored secret the request fails with
   INVALID_CURRENT_PASSWORD and leaves the secret unchanged; with a verifying
   currentPassword it replaces the secret so that afterwards sign-in succeeds
   with newPassword and fails with the old password. In both cases role,
   isActive and every other account are unchanged. *)
C22_ChangeAnyRequest ==
    \A hdr \in Headers, salt \in Salts, req \in ChangePasswordReqs :
       LET a == authenticateToken(users, now, hdr)
           i == a.userId
           r == changePassword(users, now, hdr, salt, req)
       IN a.ok =>
          /\ ChangeFrame(users, r.users, i)
          /\ ~comparePassword(users[i], req.currentPassword) =>
                /\ r.resp.code = "INVALID_CURRENT_PASSWORD"
                /\ r.users[i].password = users[i].password
          /\ comparePassword(users[i], req.currentPassword) =>
                \A s \in SigninsFor(users[i].email) :
                   LET after == signin(r.users, now, s).resp IN
                   /\ s.password = req.newPassword => after.status = 200
                   /\ s.password = req.currentPassword => after.status # 200

(* C22, amended. For a caller the authentication gate lets through and a
   request that passes validation (currentPassword not empty, newPassword
   meeting the password rule): a currentPassword that does not verify is
   answered 400 INVALID_CURRENT_PASSWORD and changes nothing; a verifying one
   is answered PASSWORD_CHANGED and stores a secret that verifies newPassword
   and, when newPassword differs from the old password, no longer verifies
   the old one. Afterwards a sign-in with newPassword whose code passes
   validation succeeds unless the account is locked, in which case it is
   answered 423, and a sign-in with a different old password gets no token.
   A request that fails validation is answered 400 and changes nothing. In
   every case role, isActive and every other account are unchanged. *)
C22_ChangePassword ==
    \A hdr \in Headers, salt \in Salts, req \in ChangePasswordReqs :
       LET a == authenticateToken(users, now, hdr)
           i == a.userId
           r == changePassword(users, now, hdr, salt, req)
       IN a.ok =>
          /\ ChangeFrame(users, r.users, i)
          /\ ~changePasswordValidation(req) =>
                r.resp.status = 400 /\ r.users = users
          /\ changePasswordValidation(req)
                /\ ~comparePassword(users[i], req.currentPassword) =>
                /\ r.resp.status = 400
                /\ r.resp.code = "INVALID_CURRENT_PASSWORD"
                /\ r.users = users
          /\ changePasswordValidation(req)
                /\ comparePassword(users[i], req.currentPassword) =>
                /\ r.resp.code = "PASSWORD_CHANGED"
                /\ comparePassword(r.users[i], req.newPassword)
                /\ req.newPassword # req.currentPassword =>
                      ~comparePassword(r.users[i], req.currentPassword)
                /\ \A s \in SigninsFor(users[i].email) :
                      LET after == signin(r.users, now, s).resp IN
                      /\ s.password = req.newPassword
                            /\ CodeAccepted(users[i], s) =>
                            IF isLocked(users[i], now)
                            THEN after.status = 423
                            ELSE after.status = 200 /\ after.token # <<>>
                      /\ s.password = req.currentPassword
                            /\ req.newPassword # req.currentPassword =>
                            after.status # 200 /\ after.token = <<>>

(* An account whose password was changed, locked out by sign-ins with the
   password it registered with, whose holder still has a valid token *)
C22_Witness ==
    \E i \in DOMAIN users :
       /\ comparePassword(users[i], "Xyz789a")
       /\ isLocked(users[i], now)
       /\ \E k \in tokens : k.userId = i /\ authenticateToken(users, now, <<k>>).ok

----------------------------------------------------------------------------
(* The hashed secret *)

(* The passwords that verify against the stored secret of an account *)
Verifying(user) ==
    {p \in Passwords \cup WeakPasswords : comparePassword(user, p)}

(* The sign-ins that try password p on the account with this email *)
TriesOf(email, p) ==
    {s \in CredentialSigninReqs :
        normalizeEmail(s.email) = email /\ s.password = p}

(* The account i of store U verifies P and nothing else, in the password
   check of sign-in as well, and its stored secret is not the plaintext *)
RoundTrip(U, t, i, P) ==
    /\ Verifying(U[i]) = {P}
    /\ U[i].password.digest # P
    /\ ~isLocked(U[i], t) /\ U[i].isActive =>
          \A p \in Passwords \cup WeakPasswords :
             \A s \in TriesOf(U[i].email, p) :
                LET r == signin(U, t, s) IN
                IF p = P
                THEN r.resp.status = 200 /\ r.resp.token # <<>>
                ELSE /\ r.resp.status = 401
                     /\ r.resp.code = "INVALID_CREDENTIALS"
                     /\ r.resp.token = <<>>

(* C23. Hash round-trip: for all valid passwords P and P' different from P,
   an account created with password P verifies P (the password check of
   sign-in is true) and rejects P' (the check is false), and the stored
   secret is never equal to the plaintext P. Checked on every account of
   the store, which verifies exactly one password, and on every account a
   sign-up or a creation by a superadmin would add now, under every salt. *)
C23_HashRoundTrip ==
    /\ \A i \in DOMAIN users : \E P \in Passwords : RoundTrip(users, now, i, P)
    /\ \A req \in CredentialSignupReqs, salt \in FreshSalts :
          LET r == signup(users, now, nextId, salt, req) IN
          r.resp.status = 201 => RoundTrip(r.users, now, nextId, req.password)
    /\ \A req \in CreateReqs, p \in Passwords, salt \in FreshSalts :
          LET r == createUserSave(users, nextId, salt,
                                  [req EXCEPT !.password = p])
          IN r.resp.status = 201 => RoundTrip(r.users, now, nextId, p)
    /\ \A p \in Passwords :
          hashPassword(p, "s1") # hashPassword(p, "s2")

(* Two accounts registered with the same password under different salts,
   one of which a sign-in with another password has failed on *)
C23_Witness ==
    \E i, j \in DOMAIN users :
       /\ i # j
       /\ Verifying(users[i]) = Verifying(users[j])
       /\ users[i].password # users[j].password
       /\ users[i].loginAttempts > 0

----------------------------------------------------------------------------
(* The client's session *)

Unauthenticated ==
    /\ state.token = <<>> /\ state.user = <<>>
    /\ ~state.isAuthenticated
    /\ localStorage = <<>>

(* C24. Client logout: a call of logout() in the AuthContext always ends
   with the client unauthenticated (state.token = null, state.user = null,
   isAuthenticated = false, the 'token' entry removed from localStorage),
   whether POST /api/auth/logout succeeds, fails, or is not sent: when the
   last call that completed is a logout, the client is unauthenticated. *)
C24_ClientLogout ==
    done.op = "logout" =>
       /\ done.request \in Outcomes \cup {"none"}
       /\ Unauthenticated

(* A logout whose request was answered 401 has completed, and the page is
   on its way to /login *)
C24_Witness ==
    /\ done = [op |-> "logout", request |-> "401"]
    /\ location = "/login"
    /\ Unauthenticated

(* A logout has completed without a request *)
C24_WitnessNotSent ==
    /\ done = [op |-> "logout", request |-> "none"]
    /\ Unauthenticated

----------------------------------------------------------------------------
(* The order of the checks of sign-in *)

Answers(r, status, code) == r.resp.status = status /\ r.resp.code = code

(* The request carries a verification code that is not the shared one *)
WrongCode(req) == req.uniqueCode \notin {Undefined, SharedCode}

(* C25, as stated. Sign-in evaluates its checks in the fixed order unknown
   email (INVALID_CREDENTIALS), locked (ACCOUNT_LOCKED), inactive
   (ACCOUNT_DEACTIVATED), privileged-code mismatch, password mismatch
   (INVALID_CREDENTIALS), and returns the failure of the first check that
   applies: a locked account yields ACCOUNT_LOCKED even if it is also
   inactive or the supplied code or password is wrong, and an inactive
   unlocked account yields ACCOUNT_DEACTIVATED even if the code or password
   is wrong. *)
C25_CodeAfterAccountState ==
    \A req \in SigninReqs :
       LET found == findByEmail(users, normalizeEmail(req.email))
           r == signin(users, now, req)
       IN req.password # "" =>
          /\ found = {} => Answers(r, 401, "INVALID_CREDENTIALS")
          /\ \A i \in found :
                IF isLocked(users[i], now)
                THEN Answers(r, 423, "ACCOUNT_LOCKED")
                ELSE IF ~users[i].isActive
                THEN Answers(r, 401, "ACCOUNT_DEACTIVATED")
                ELSE IF users[i].role \in Privileged /\ WrongCode(req)
                THEN r.resp.status # 200
                ELSE IF ~comparePassword(users[i], req.password)
                THEN Answers(r, 401, "INVALID_CREDENTIALS")
                ELSE r.resp.status = 200

(* C25, amended. The request validation comes first: an empty password, or
   a supplied verification code that is not the shared one when the email
   is that of an admin or superadmin account, is answered 400 whatever the
   state of the account. Then the handler evaluates, in this order, unknown
   email (401 INVALID_CREDENTIALS), locked (423 ACCOUNT_LOCKED), inactive
   (401 ACCOUNT_DEACTIVATED), password mismatch (401 INVALID_CREDENTIALS),
   and returns the failure of the first check that applies. *)
C25_SigninOrder ==
    \A req \in SigninReqs :
       LET found == findByEmail(users, normalizeEmail(req.email))
           r == signin(users, now, req)
       IN IF req.password = ""
             \/ \E i \in found : users[i].role \in Privileged /\ WrongCode(req)
          THEN Answers(r, 400, "VALIDATION_FAILED") /\ r.users = users
          ELSE /\ found = {} => Answers(r, 401, "INVALID_CREDENTIALS")
               /\ \A i \in found :
                     IF isLocked(users[i], now)
                     THEN Answers(r, 423, "ACCOUNT_LOCKED")
                     ELSE IF ~users[i].isActive
                     THEN Answers(r, 401, "ACCOUNT_DEACTIVATED")
                     ELSE IF ~comparePassword(users[i], req.password)
                     THEN Answers(r, 401, "INVALID_CREDENTIALS")
                     ELSE r.resp.status = 200 /\ r.resp.token # <<>>

(* A privileged account that is locked and deactivated at once: every check
   of sign-in applies to a request with a wrong code and a wrong password *)
C25_Witness ==
    \E i \in DOMAIN users :
       /\ isLocked(users[i], now)
       /\ ~users[i].isActive
       /\ users[i].role \in Privileged
       /\ \E req \in SigninsFor(users[i].email) :
             WrongCode(req) /\ ~comparePassword(users[i], req.password)

----------------------------------------------------------------------------
(* The counter of failed attempts *)

(* Every account but i is as before *)
OthersUnchanged(U, U2, i) ==
    DOMAIN U2 = DOMAIN U /\ \A j \in DOMAIN U \ {i} : U2[j] = U[j]

(* Account i differs from before in its lockout fields at most *)
OnlyLockoutFields(U, U2, i) ==
    U2[i] = [U[i] EXCEPT !.loginAttempts = U2[i].loginAttempts,
                         !.lockUntil = U2[i].lockUntil]

(* C26, as stated. Every sign-in attempt that fails against an existing
   account that is not locked increases that account's loginAttempts by
   exactly 1, also when the count is still below the threshold, and changes
   no other account. *)
C26_EveryFailureCounts ==
    \A req \in SigninReqs :
       LET r == signin(users, now, req) IN
       \A i \in findByEmail(users, normalizeEmail(req.email)) :
          req.password # "" /\ ~isLocked(users[i], now)
             /\ r.resp.status # 200 =>
             /\ r.users[i].loginAttempts = users[i].loginAttempts + 1
             /\ OthersUnchanged(users, r.users, i)

(* C26, amended. Every sign-in that fails the password check, that is every
   sign-in answered INVALID_CREDENTIALS for the email of an existing account,
   which is then active and not locked, increases that account's
   loginAttempts by exactly 1, also below the threshold, changes nothing else
   of the account but lockUntil, and changes no other account. A sign-in on
   an account that is not locked that fails before the password check (400
   from the validation, ACCOUNT_DEACTIVATED) changes nothing. *)
C26_FailedAttemptCounts ==
    \A req \in SigninReqs :
       LET r == signin(users, now, req) IN
       \A i \in findByEmail(users, normalizeEmail(req.email)) :
          /\ r.resp.code = "INVALID_CREDENTIALS" =>
                /\ users[i].isActive /\ ~isLocked(users[i], now)
                /\ ~comparePassword(users[i], req.password)
                /\ r.users[i].loginAttempts = users[i].loginAttempts + 1
                /\ OnlyLockoutFields(users, r.users, i)
                /\ OthersUnchanged(users, r.users, i)
          /\ ~isLocked(users[i], now) /\ r.resp.status # 200
                /\ r.resp.code # "INVALID_CREDENTIALS" =>
                /\ r.resp.code \in {"VALIDATION_FAILED", "ACCOUNT_DEACTIVATED"}
                /\ r.users = users
          /\ ~isLocked(users[i], now) /\ users[i].isActive
                /\ CodeAccepted(users[i], req) /\ req.password # ""
                /\ ~comparePassword(users[i], req.password) =>
                r.resp.code = "INVALID_CREDENTIALS"

(* An account some sign-ins have failed on, fewer than the threshold, that
   the next wrong password counts on again *)
C26_Witness ==
    \E i \in DOMAIN users :
       /\ users[i].loginAttempts \in 1..(LockThreshold - 2)
       /\ failStreak[i] = users[i].loginAttempts
       /\ \E req \in SigninsFor(users[i].email) :
             signin(users, now, req).users[i].loginAttempts
                = users[i].loginAttempts + 1

(* C27. A successful sign-in always leaves the account with loginAttempts =
   0 and lockUntil unset, so failures do not accumulate across successes: an
   account with fewer than 5 failed attempts since its last successful
   sign-in (or since it was created) has no lock, and its count is the
   number of those attempts. *)
C27_SuccessResets ==
    /\ \A req \in SigninReqs :
          LET r == signin(users, now, req) IN
          r.resp.status = 200 =>
             \A i \in findByEmail(users, normalizeEmail(req.email)) :
                /\ r.users[i].loginAttempts = 0
                /\ r.users[i].lockUntil = <<>>
                /\ OnlyLockoutFields(users, r.users, i)
                /\ OthersUnchanged(users, r.users, i)
    /\ \A i \in DOMAIN users :
          failStreak[i] < LockThreshold =>
             /\ users[i].lockUntil = <<>>
             /\ users[i].loginAttempts = failStreak[i]

(* An account one failure away from the lock: the sign-in with its password
   succeeds and resets it, and the wrong password after that is counted as
   the first *)
C27_Witness ==
    \E i \in DOMAIN users :
       /\ failStreak[i] = LockThreshold - 1
       /\ users[i].loginAttempts = LockThreshold - 1
       /\ \E good, bad \in SigninsFor(users[i].email) :
             LET r == signin(users, now, good)
                 r2 == signin(r.users, now, bad)
             IN /\ r.resp.status = 200
                /\ r.users[i].loginAttempts = 0
                /\ r2.resp.code = "INVALID_CREDENTIALS"
                /\ r2.users[i].loginAttempts = 1
                /\ r2.users[i].lockUntil = <<>>

(* C28. A sign-in that fails because the email is unknown, the account is
   locked, or the account is deactivated leaves every account unchanged: in
   particular attempts made while an account is locked neither increment
   loginAttempts nor extend lockUntil. *)
C28_TurnedDownChangesNothing ==
    \A req \in SigninReqs :
       LET found == findByEmail(users, normalizeEmail(req.email))
           r == signin(users, now, req)
       IN /\ found = {} => r.resp.status # 200 /\ r.users = users
          /\ r.resp.code \in {"ACCOUNT_LOCKED", "ACCOUNT_DEACTIVATED"} =>
                r.users = users
          /\ \A i \in found :
                isLocked(users[i], now) \/ ~users[i].isActive =>
                   r.resp.status # 200 /\ r.users = users

(* A locked account and a wrong password tried on it, and an email no
   account has *)
C28_Witness ==
    /\ \E i \in DOMAIN users :
          /\ LockedOut(i)
          /\ \E req \in SigninsFor(users[i].email) :
                /\ ~comparePassword(users[i], req.password)
                /\ signin(users, now, req).resp.code = "ACCOUNT_LOCKED"
    /\ \E req \in SigninReqs :
          /\ findByEmail(users, normalizeEmail(req.email)) = {}
          /\ signin(users, now, req).resp.code = "INVALID_CREDENTIALS"

(* A deactivated account that is not locked, with failed attempts on it, and
   a wrong password tried on it *)
C28_WitnessDeactivated ==
    \E i \in DOMAIN users :
       /\ ~users[i].isActive /\ ~isLocked(users[i], now)
       /\ users[i].loginAttempts > 0
       /\ \E req \in SigninsFor(users[i].email) :
             /\ ~comparePassword(users[i], req.password)
             /\ signin(users, now, req).resp.code = "ACCOUNT_DEACTIVATED"

----------------------------------------------------------------------------
(* Sign-ins in flight that read the account and will fail the password
   check *)
PendingFailures ==
    {s \in DOMAIN inflight :
        /\ inflight[s].route = "signin"
        /\ ~comparePassword(inflight[s].local, inflight[s].req.password)}

(* The store after the sign-in in slot s completes, at the present time *)
Completing(U, s) ==
    signinWrite(U, now, inflight[s].id, inflight[s].local,
                inflight[s].req).users

(* Two sign-ins in flight on one account that both read the count one below
   the threshold and will both fail *)
BothReadLast(s1, s2) ==
    /\ s1 # s2 /\ {s1, s2} \subseteq PendingFailures
    /\ inflight[s1].id = inflight[s2].id
    /\ inflight[s1].local.loginAttempts = LockThreshold - 1
    /\ inflight[s2].local.loginAttempts = LockThreshold - 1

(* C29: under every interleaving of the reads and writes of concurrent
   sign-ins on one account, a sign-in is answered ACCOUNT_LOCKED exactly when
   lockUntil is set and in the future, a count of five or more implies
   lockUntil is set, and two failed attempts that both read count 4 leave the
   account locked, in either order of completion *)
C29_LockoutConsistent ==
    /\ \A i \in DOMAIN users :
          /\ users[i].loginAttempts >= LockThreshold =>
                users[i].lockUntil # <<>>
          /\ \A req \in LockoutSigninReqs :
                findByEmail(users, normalizeEmail(req.email)) = {i} =>
                   ((signinRead(users, now, req).code = "ACCOUNT_LOCKED")
                    <=> (/\ users[i].lockUntil # <<>>
                         /\ users[i].lockUntil[1] > now))
    /\ \A s1, s2 \in DOMAIN inflight :
          BothReadLast(s1, s2) =>
             LET id == inflight[s1].id
                 first == Completing(users, s1)
                 both == Completing(first, s2)
             IN /\ isLocked(first[id], now)
                /\ isLocked(both[id], now)
                /\ both[id].loginAttempts = LockThreshold

(* Two failed attempts in flight that both read count 4 *)
C29_Witness ==
    \E s1, s2 \in DOMAIN inflight : BothReadLast(s1, s2)

(* An increment was lost: six sign-ins failed in a row, the count is five
   and the account is locked *)
C29_WitnessLostUpdate ==
    \E i \in DOMAIN users :
       /\ failStreak[i] = LockThreshold + 1
       /\ users[i].loginAttempts = LockThreshold
       /\ isLocked(users[i], now)

----------------------------------------------------------------------------
(* What one sign-in leaves of a lock: an unlock time no earlier than it
   was, the count not reset, and no token in the answer *)
LockKept(before, r, id) ==
    /\ r.users[id].lockUntil # <<>>
    /\ r.users[id].lockUntil[1] >= before[id].lockUntil[1]
    /\ r.users[id].loginAttempts = 0 => before[id].loginAttempts = 0
    /\ r.resp.token = <<>>

(* C30: while lockUntil of an account is set and in the future, no sign-in
   on it clears lockUntil, resets the count or returns a token: neither a
   request that arrives now nor one that read the account before the lock
   was written and completes now *)
C30_LockNotClearedEarly ==
    \A i \in DOMAIN users :
       isLocked(users[i], now) =>
          /\ \A req \in SigninsFor(users[i].email) :
                LockKept(users, signin(users, now, req), i)
          /\ \A s \in DOMAIN inflight :
                inflight[s].route = "signin" /\ inflight[s].id = i =>
                   LockKept(users,
                            signinWrite(users, now, i, inflight[s].local,
                                        inflight[s].req), i)

----------------------------------------------------------------------------
(* A token the server signed that has not expired *)
Unexpired(k) == k.sig = JwtSecret /\ now < k.exp

TurnedDownAsDeactivated(U, r) ==
    /\ r.resp.status = 401 /\ r.resp.code = "ACCOUNT_DEACTIVATED"
    /\ r.resp.user = <<>> /\ r.resp.token = <<>>
    /\ r.users = U

(* The deactivations of account i an admin or superadmin can ask for now:
   POST /admin/users/:id/deactivate and PUT /admin/users/:id with
   isActive false, those answered 200 *)
Deactivations(i) ==
    {r \in {setActive(users, now, hdr, i, FALSE) : hdr \in AnyHeaders}
            \cup {adminPutUser(users, now, hdr, i, req) :
                     hdr \in AnyHeaders,
                     req \in {q \in AdminPutReqs : q.isActive = "false"}} :
        r.resp.status = 200}

Deletions(i) ==
    {r \in {adminDeleteUser(users, now, hdr, i) : hdr \in AnyHeaders} :
        r.resp.status = 200}

Reactivations(i) ==
    {r \in {setActive(users, now, hdr, i, TRUE) : hdr \in AnyHeaders} :
        r.resp.status = 200}

(* C31. Deactivation and deletion take effect on outstanding tokens at once:
   after an admin or superadmin has deactivated an account, every request
   with an unexpired token of it, refresh included, is answered 401
   ACCOUNT_DEACTIVATED and changes nothing, at every instant of the token's
   life; after the account was deleted the answer is 401 INVALID_TOKEN; once
   a deactivated account is reactivated the same token is accepted again. *)
C31_DeactivationAtOnce ==
    \A k \in AnyTokens :
       Unexpired(k) /\ k.userId \in DOMAIN users =>
          LET i == k.userId IN
          /\ \A d \in Deactivations(i) :
                /\ ~d.users[i].isActive
                /\ \A t \in LifeOf(k) :
                      \A q \in RequestResults(d.users, t, <<k>>) :
                         TurnedDownAsDeactivated(d.users, q)
          /\ \A d \in Deletions(i) :
                /\ i \notin DOMAIN d.users
                /\ \A t \in LifeOf(k) :
                      \A q \in RequestResults(d.users, t, <<k>>) :
                         TurnedDownAsInvalid(d.users, q)
          /\ ~users[i].isActive =>
                /\ \A q \in ManagementResults(<<k>>) :
                      TurnedDownAsDeactivated(users, q)
                /\ \A a \in Reactivations(i) :
                      \A t \in LifeOf(k) : Accepted(a.users, t, k)

(* C31, witness: an account is deactivated while a token of it has not
   expired, a refresh with that token is turned down, and the administrator
   whose token the client holds can reactivate the account or delete it *)
C31_Witness ==
    \E k \in AnyTokens, h \in tokens :
       /\ Unexpired(k) /\ k.userId \in DOMAIN users
       /\ ~users[k.userId].isActive
       /\ h.userId # k.userId
       /\ refresh(users, now, <<k>>).resp.code = "ACCOUNT_DEACTIVATED"
       /\ setActive(users, now, <<h>>, k.userId, TRUE).resp.status = 200
       /\ adminDeleteUser(users, now, <<h>>, k.userId).resp.status = 200

----------------------------------------------------------------------------
(* The deletes in flight whose caller the gate read as an admin and whose
   target is still stored *)
PendingAdminDeletes ==
    {s \in DOMAIN inflight :
        /\ inflight[s].route = "adminDelete"
        /\ inflight[s].callerRole = "admin"
        /\ inflight[s].tid \in DOMAIN users}

(* C32. Admin delete versus concurrent promotion: whatever runs between the
   role check of an admin caller's DELETE /admin/users/:id and its removal,
   the account the removal takes away is not an admin or a superadmin at
   that moment. *)
C32_DeleteVersusPromotion ==
    \A s \in PendingAdminDeletes :
       adminDeleteRemove(users, inflight[s].tid).users # users =>
          users[inflight[s].tid].role \notin Privileged

----------------------------------------------------------------------------
(* The bodies of the two update routes, with every way of giving a field:
   absent, a text, a text to trim, the empty text, blanks, and isActive as a
   boolean or as the text 'false' *)
SparseProfileReqs ==
    [firstName : NameInputs, department : DepartmentInputs \cup {" "},
     role : {Undefined}]

SparseAdminReqs ==
    [role : {Undefined, "user"},
     isActive : {Undefined, "true", "false", "'false'"},
     firstName : NameInputs, department : DepartmentInputs \cup {" "}]

TextFields == {"firstName", "department"}

(* What the update took account i from (before) to (after), for the body
   req: a text field changes only to the trimmed text the body gives, and
   only when that is not empty; a field absent or empty stays; no field
   becomes empty *)
SparseTexts(before, after, req) ==
    \A f \in TextFields :
       /\ after[f] # before[f] =>
             truthy(trim(req[f])) /\ after[f] = trim(req[f])
       /\ req[f] \in {Undefined, ""} => after[f] = before[f]
       /\ after[f] = "" => before[f] = ""

(* C33. Sparse merge on update: PUT /users/profile and PUT /admin/users/:id
   write a text field only when the body gives a non-empty value for it, and
   isActive only when the body gives a boolean; a field given as the empty
   text, or not given, keeps its stored value, no update empties a stored
   field, and isActive false given as a boolean is applied. *)
C33_SparseMerge ==
    \A hdr \in Headers :
       /\ \A req \in SparseProfileReqs :
             LET r == updateProfile(users, now, hdr, req) IN
             /\ DOMAIN r.users = DOMAIN users
             /\ \A i \in DOMAIN users :
                   /\ SparseTexts(users[i], r.users[i], req)
                   /\ r.users[i].isActive = users[i].isActive
             /\ r.resp.status = 200 =>
                   \A f \in TextFields :
                      truthy(trim(req[f])) =>
                         r.users[hdr[1].userId][f] = trim(req[f])
       /\ \A tid \in Ids, req \in SparseAdminReqs :
             LET r == adminPutUser(users, now, hdr, tid, req) IN
             /\ DOMAIN r.users = DOMAIN users
             /\ \A i \in DOMAIN users :
                   /\ SparseTexts(users[i], r.users[i], req)
                   /\ r.users[i].isActive # users[i].isActive =>
                         req.isActive \in {"true", "false"}
                   /\ i # tid => r.users[i] = users[i]
             /\ r.resp.status = 200 =>
                   /\ req.isActive = "false" => ~r.users[tid].isActive
                   /\ req.isActive = "true" => r.users[tid].isActive
                   /\ \A f \in TextFields :
                         truthy(trim(req[f])) =>
                            r.users[tid][f] = trim(req[f])

(* C33, witness: an account whose name and department were updated sends the
   empty text for its department and is answered 200, the department as it
   was; a body of blanks does the same; an administrator's update with
   isActive false would deactivate it, and one with the text 'false' is
   answered 200 and would not *)
C33_Witness ==
    \E hdr \in Headers :
       /\ authenticateToken(users, now, hdr).ok
       /\ LET i == hdr[1].userId IN
          /\ users[i].firstName = "Bob" /\ users[i].department = "R&D"
          /\ \A d \in {"", " "} :
                LET r == updateProfile(users, now, hdr,
                                       [firstName |-> Undefined,
                                        department |-> d,
                                        role |-> Undefined])
                IN r.resp.status = 200 /\ r.users = users
          /\ \E tid \in DOMAIN users :
                LET off == [role |-> Undefined, isActive |-> "false",
                            firstName |-> "", department |-> Undefined]
                    txt == [role |-> Undefined, isActive |-> "'false'",
                            firstName |-> Undefined, department |-> ""]
                IN /\ adminPutUser(users, now, hdr, tid, off).resp.status
                         = 400
                   /\ adminPutUser(users, now, hdr, tid, txt).resp.status
                         = 200
                   /\ adminPutUser(users, now, hdr, tid, txt).users = users
                   /\ ~adminPutUser(users, now, hdr, tid,
                                    [txt EXCEPT !.isActive = "false"])
                          .users[tid].isActive

----------------------------------------------------------------------------
(* The statuses of a failure *)
FailureStatuses == {400, 401, 403, 404, 423, 500}

(* The answers of the /api/auth handlers to every request, with every
   statement that can throw *)
FaultyResults ==
    {signupFaulty(users, now, nextId, x[1], x[2], x[3]) :
        x \in Salts \X CredentialSignupReqs \X Faults}
    \cup {signinFaulty(users, now, x[1], x[2]) :
             x \in CredentialSigninReqs \X Faults}
    \cup {changePasswordFaulty(users, now, x[1], x[2], x[3], x[4]) :
             x \in Headers \X Salts \X ChangePasswordReqs \X Faults}

(* The one change a failure may make: the lockout fields of one account,
   by a sign-in answered 401 INVALID_CREDENTIALS *)
CountedFailure(r) ==
    /\ r.resp.status = 401 /\ r.resp.code = "INVALID_CREDENTIALS"
    /\ DOMAIN r.users = DOMAIN users
    /\ \E i \in DOMAIN users :
          /\ OnlyLockoutFields(users, r.users, i)
          /\ r.users[i].loginAttempts = users[i].loginAttempts + 1

(* C34. State unchanged on error: every request answered with a failure
   (400, 401, 403, 404, 423 or 500) leaves the account store exactly as it
   was, but for the lockout counter of a wrong-password sign-in; a sign-up
   or sign-in that ends in a 500 has created no account and reset no
   counter. *)
C34_UnchangedOnError ==
    \A r \in FaultyResults \cup UNION {ManagementResults(hdr) :
                                         hdr \in Headers} :
       r.resp.status \in FailureStatuses =>
          r.users = users \/ CountedFailure(r)

----------------------------------------------------------------------------
(* The codes of a batch *)
CodesOf(batch) == {batch.items[n] : n \in DOMAIN batch.items}

(* C35. QR code batch save: the stored QR codes have pairwise distinct
   codes; a POST /admin/qrcodes answered 409 stores none of the codes of its
   batch, and one answered 201 stores all of them, each with createdBy the
   caller's id. *)
C35_QrBatchSave ==
    /\ \A d1, d2 \in qrcodes : d1.code = d2.code => d1 = d2
    /\ \A hdr \in Headers, batch \in CodeBatches :
          LET r == postQrcodes(users, qrcodes, now, hdr, batch) IN
          /\ r.resp.status = 409 => r.qrcodes = qrcodes
          /\ r.resp.status = 201 =>
                r.qrcodes = qrcodes \cup
                               {[code |-> c, createdBy |-> hdr[1].userId] :
                                   c \in CodesOf(batch)}

----------------------------------------------------------------------------
(* C36. Client auth-state invariant: in every state of the AuthContext,
   under every interleaving of login, register, loadUser, updateProfile and
   logout with the arrival of their responses, isAuthenticated = true implies
   that user is not null and token is not null; a USER_LOADED dispatched by a
   response that arrives after LOGOUT does not authenticate the client. *)
C36_AuthStateInvariant ==
    state.isAuthenticated => state.user # <<>> /\ state.token # <<>>

----------------------------------------------------------------------------
(* C37, as stated. Client token mirror: after every reducer action and every
   API response the token of the AuthContext state equals the 'token' entry
   of localStorage, both absent or both the same value, also after a 401
   response that the response interceptor handled. *)
C37_MirrorAlways == state.token = localStorage

(* C37, amended. The same, but for the time between a 401 response and the
   replacement of the page that the interceptor asks for: then the state may
   still hold the token that the interceptor removed from localStorage; the
   page that loads at /login starts from localStorage again. *)
C37_TokenMirror ==
    /\ state.token # localStorage =>
          location = "/login" /\ localStorage = <<>>
    /\ initialState(localStorage).token = localStorage

(* C37, witness: an update of the profile was answered 401; the interceptor
   has removed the stored token, the state still holds it, and the page is
   on its way to /login *)
C37_Witness ==
    /\ done = [op |-> "updateProfile", request |-> "401"]
    /\ state.token # <<>> /\ localStorage = <<>>
    /\ location = "/login"

----------------------------------------------------------------------------
(* A step in which a login or a register call completes on a failure of its
   request *)
SubmitFails ==
    \E c \in DOMAIN calls :
       /\ calls[c].op \in {"login", "register"}
       /\ calls' = Without(calls, c)
       /\ done' \in [op : {calls[c].op}, request : {"401", "error"}]

(* C38. A login or registration that fails while the client is authenticated
   leaves the session as it was: state.token, state.user, isAuthenticated
   and the token of localStorage are the same after the failure. *)
C38_FailedLoginKeepsSession ==
    [][SubmitFails /\ state.isAuthenticated =>
          /\ state'.token = state.token
          /\ state'.user = state.user
          /\ state'.isAuthenticated
          /\ localStorage' = localStorage]_vars

----------------------------------------------------------------------------
(* The mount effect in slot c runs, with no token in the state *)
MountsWithoutToken(c) ==
    /\ c \in DOMAIN calls /\ calls[c].op = "mount"
    /\ c \notin DOMAIN calls' \/ calls'[c] # calls[c]
    /\ state.token = <<>>

(* C39. Client loading terminates: when the mount effect runs and every
   awaited request gets a response or an error, loading, whenever it is
   true (at the start of the application and after every call of login or
   register), becomes false; with no token stored at the start it becomes
   false in the mount effect itself, and no request is sent. *)
C39_LoadingTerminates ==
    /\ state.loading ~> ~state.loading
    /\ [][\A c \in CallSlots :
             MountsWithoutToken(c) =>
                ~state'.loading /\ calls' = Without(calls, c)]_vars

(* C39, witness: a login was called, loading was true while its request was
   awaited, and the request has failed: loading is false *)
C39_Witness ==
    /\ done = [op |-> "login", request |-> "error"]
    /\ ~state.loading /\ calls = <<>>
    /\ state.error = <<Message>>

====
